---- MODULE Spec2Model ----
(***************************************************************************)
(* A model of the request-classification core of balooProxy: the per-IP    *)
(* reputation store, the connection limiter and the dynamic-difficulty     *)
(* controller, each translated from its Go source.                         *)
(*                                                                         *)
(* Go maps are functions whose DOMAIN is the set of keys present.  A       *)
(* sync.RWMutex is modelled by the goroutine that holds its write lock;    *)
(* every read-locked section of the source contains no blocking call and   *)
(* is one atomic step, enabled only while no goroutine holds the write     *)
(* lock.  Clock values are whole seconds.                                  *)
(***************************************************************************)
EXTENDS Integers, Sequences, FiniteSets, TLC

\* ------------------------------------------------------------------ bounds
\* The clock runs from 0 to MaxTime.
MaxTime == 2

\* ------------------------------------------------------------- the universe
IPs == {"a", "b"}
Threads == {"t1", "t2"}
NoThread == "none"

\* ------------------------------------------------------- map helper functions
EmptyMap == [k \in {} |-> 0]
MapPut(m, k, v) == [x \in (DOMAIN m) \cup {k} |-> IF x = k THEN v ELSE m[x]]
MapDel(m, k) == [x \in (DOMAIN m) \ {k} |-> m[x]]
\* m[k] of a Go map of ints: the zero value when the key is absent
MapGet(m, k) == IF k \in DOMAIN m THEN m[k] ELSE 0

\* =====================================================================
\* Reputation store
\* =====================================================================
DefaultMinScore == 20
DefaultDecayInterval == 3600
ScoreRateLimitHit == -3
DefaultReputationScore == 50
MaxReputationScore == 100
MinReputationScore == 0
SecondsPerDay == 86400

VARIABLES
    ReputationScores,        \* map ip -> record (the object the map points to)
    ReputationMutex,         \* the goroutine holding the write lock, or NoThread
    ReputationDB,            \* "nil" | "open" | "closed"
    bucket,                  \* the "reputation" bucket of the database file
    ReputationEnabled,
    ReputationMinScore,
    ReputationPersistToDB,
    ReputationDecayInterval,
    decayRunning,            \* ReputationDecayRoutine has been started
    nextDecay,               \* the time of the ticker's next tick
    now,                     \* the wall clock
    phase,                   \* "boot" before config.Load, "run" after
    th,                      \* each hot-path goroutine: where it is, its locals
    ret                      \* the call that returned last, with its result

repVars == <<ReputationScores, ReputationMutex, ReputationDB, bucket,
             ReputationEnabled, ReputationMinScore, ReputationPersistToDB,
             ReputationDecayInterval, decayRunning, nextDecay, th>>
sysVars == <<now, phase, ret>>

ReputationData(ip, score, updated, decay, total, failed, hits) ==
    [IP |-> ip, Score |-> score, LastUpdated |-> updated, LastDecay |-> decay,
     TotalRequests |-> total, FailedChallenges |-> failed, RateLimitHits |-> hits]

\* A pointer *ReputationData: nil, the object the map holds under the caller's
\* ip, or an object that was deleted from the map.
Nil == [kind |-> "nil"]
InMap == [kind |-> "inmap"]
Detached(data) == [kind |-> "object", rec |-> data]

Idle == [pc |-> "idle", op |-> "none", ip |-> "none", delta |-> 0,
         reason |-> "none", data |-> Nil]
NoRet == [op |-> "none"]

\* Scores a record read from the database file can carry: what SaveReputationToDB
\* wrote in an earlier run, always a clamped score.
StoredScores == {0, 20, 100}
StoredRecords(ip, scores) == {ReputationData(ip, s, 0, 0, 0, 0, 0) : s \in scores}
RECURSIVE StoredBuckets(_, _)
StoredBuckets(S, scores) ==
    IF S = {} THEN {EmptyMap}
    ELSE LET ip == CHOOSE x \in S : TRUE
             rest == StoredBuckets(S \ {ip}, scores)
         IN rest \cup {MapPut(m, ip, r) : m \in rest, r \in StoredRecords(ip, scores)}

\* What the caller's pointer `data` refers to: the object the map holds for
\* its ip while that object is in the map, the detached object afterwards.
Deref(t) == IF th[t].data = InMap THEN ReputationScores[th[t].ip] ELSE th[t].data.rec

\* delete(ReputationScores, ip): goroutines that hold a pointer to the deleted
\* object keep the object.
Detach(threads, scores, gone) ==
    [t \in Threads |->
        IF threads[t].data = InMap /\ threads[t].ip \in gone
        THEN [threads[t] EXCEPT !.data = Detached(scores[threads[t].ip])]
        ELSE threads[t]]

\* bucket.Put / bucket.Delete inside ReputationDB.Update: an error on a closed
\* database, which the callers drop.
SaveReputationToDB(b, ip, data) ==
    IF ~ReputationPersistToDB \/ ReputationDB = "nil" THEN b
    ELSE IF ReputationDB = "open" THEN MapPut(b, ip, data) ELSE b

LoadReputationFromDB(scores, b, persist, db) ==
    IF ~persist \/ db = "nil" THEN scores
    ELSE [ip \in (DOMAIN scores) \cup (DOMAIN b) |->
             IF ip \in DOMAIN b THEN b[ip] ELSE scores[ip]]

\* ------------------------------------------------------------ configuration
\* Reputation.{Enabled, MinScore, PersistToDB, DecayInterval} of config.json; a
\* number left out of the file decodes as 0.
ReputationConfig(enabled, minScore, persist, interval) ==
    [Enabled |-> enabled, MinScore |-> minScore, PersistToDB |-> persist,
     DecayInterval |-> interval]
ReputationConfigs ==
    {ReputationConfig(FALSE, 0, FALSE, 0), ReputationConfig(TRUE, 0, TRUE, 1),
     ReputationConfig(TRUE, 21, TRUE, 0), ReputationConfig(TRUE, 0, FALSE, 1)}

\* config.Load, the reputation part, with InitReputationDB (bolt.Open
\* succeeding) and LoadReputationFromDB.
LoadReputation(cfg) ==
    IF cfg.Enabled
    THEN LET persist == cfg.PersistToDB
             db == IF persist THEN "open" ELSE "nil"
             interval == IF cfg.DecayInterval > 0 THEN cfg.DecayInterval
                         ELSE ReputationDecayInterval
         IN /\ ReputationEnabled' = TRUE
            /\ ReputationMinScore' = IF cfg.MinScore > 0 THEN cfg.MinScore
                                     ELSE ReputationMinScore
            /\ ReputationPersistToDB' = persist
            /\ ReputationDecayInterval' = interval
            /\ ReputationDB' = db
            /\ ReputationScores' =
                  LoadReputationFromDB(ReputationScores, bucket, persist, db)
            /\ decayRunning' = persist
            /\ nextDecay' = IF persist THEN now + interval ELSE nextDecay
    ELSE UNCHANGED <<ReputationEnabled, ReputationMinScore, ReputationPersistToDB,
                     ReputationDecayInterval, ReputationDB, ReputationScores,
                     decayRunning, nextDecay>>

\* ----------------------------------------------------------- UpdateReputation
Clamp(score) ==
    LET hi == IF score > MaxReputationScore THEN MaxReputationScore ELSE score
    IN IF hi < MinReputationScore THEN MinReputationScore ELSE hi

\* The statements of UpdateReputation after `data := GetReputation(ip)`.
UpdateRecord(data, scoreChange, reason) ==
    [data EXCEPT
        !.Score = Clamp(data.Score + scoreChange),
        !.LastUpdated = now,
        !.TotalRequests = data.TotalRequests + 1,
        !.FailedChallenges = IF reason = "challenge_failure"
                             THEN data.FailedChallenges + 1 ELSE data.FailedChallenges,
        !.RateLimitHits = IF reason = "rate_limit_hit"
                          THEN data.RateLimitHits + 1 ELSE data.RateLimitHits]

\* UpdateReputation up to its call of GetReputation: return when reputation is
\* disabled, otherwise take the write lock (released by the deferred Unlock
\* when the function returns) and call GetReputation.
UpdateReputation_Call(t, ip, scoreChange, reason) ==
    /\ phase = "run"
    /\ th[t].pc = "idle"
    /\ IF ~ReputationEnabled
       THEN /\ ret' = [op |-> "Update", ip |-> ip, done |-> FALSE]
            /\ UNCHANGED <<th, ReputationMutex>>
       ELSE /\ ReputationMutex = NoThread
            /\ ReputationMutex' = t
            /\ th' = [th EXCEPT ![t] = [Idle EXCEPT !.pc = "gr_rlock", !.op = "Update",
                                                   !.ip = ip, !.delta = scoreChange,
                                                   !.reason = reason]]
            /\ UNCHANGED ret
    /\ UNCHANGED <<ReputationScores, ReputationDB, bucket,
                   ReputationEnabled, ReputationMinScore, ReputationPersistToDB,
                   ReputationDecayInterval, decayRunning, nextDecay, now, phase>>

\* GetReputation returns `data` to goroutine t, the store being `scores` and the
\* bucket b.  A direct caller is done.  UpdateReputation goes on: it changes the
\* record, stores it, saves it and, returning, releases the write lock.
ReturnData(t, data, scores, b) ==
    /\ th' = [th EXCEPT ![t] = Idle]
    /\ IF th[t].op = "Update"
       THEN LET ip == th[t].ip
                new == UpdateRecord(data, th[t].delta, th[t].reason)
            IN /\ ReputationScores' = MapPut(scores, ip, new)
               /\ bucket' = SaveReputationToDB(b, ip, new)
               /\ ReputationMutex' = NoThread
               /\ ret' = [op |-> "Update", ip |-> ip, done |-> TRUE,
                          delta |-> th[t].delta, reason |-> th[t].reason,
                          old |-> data, new |-> new]
       ELSE /\ ReputationScores' = scores
            /\ bucket' = b
            /\ UNCHANGED <<ReputationMutex, ret>>

\* -------------------------------------------------------------- GetReputation
GetReputation_Call(t, ip) ==
    /\ phase = "run"
    /\ th[t].pc = "idle"
    /\ th' = [th EXCEPT ![t] = [Idle EXCEPT !.pc = "gr_rlock",
                                           !.op = "GetReputation", !.ip = ip]]
    /\ UNCHANGED <<ReputationScores, ReputationMutex, ReputationDB, bucket,
                   ReputationEnabled, ReputationMinScore, ReputationPersistToDB,
                   ReputationDecayInterval, decayRunning, nextDecay, now, phase, ret>>

\* RLock; data, exists := ReputationScores[ip]; RUnlock; return data when it
\* exists.  RLock waits while any goroutine, the caller included, holds the
\* write lock.
GetReputation_RLock(t) ==
    /\ th[t].pc = "gr_rlock"
    /\ ReputationMutex = NoThread
    /\ IF th[t].ip \in DOMAIN ReputationScores
       THEN ReturnData(t, ReputationScores[th[t].ip], ReputationScores, bucket)
       ELSE /\ th' = [th EXCEPT ![t].pc = "gr_lock"]
            /\ UNCHANGED <<ReputationScores, ReputationMutex, bucket, ret>>
    /\ UNCHANGED <<ReputationDB, ReputationEnabled, ReputationMinScore,
                   ReputationPersistToDB, ReputationDecayInterval, decayRunning,
                   nextDecay, now, phase>>

\* Lock; double-check; create the record at the default score; Unlock; return
\* data unless the new record is still to be saved.
GetReputation_Lock(t) ==
    /\ th[t].pc = "gr_lock"
    /\ ReputationMutex = NoThread
    /\ LET ip == th[t].ip
           exists == ip \in DOMAIN ReputationScores
           created == ReputationData(ip, DefaultReputationScore, now, now, 0, 0, 0)
       IN IF exists
          THEN ReturnData(t, ReputationScores[ip], ReputationScores, bucket)
          ELSE IF ReputationPersistToDB
          THEN /\ ReputationScores' = MapPut(ReputationScores, ip, created)
               /\ th' = [th EXCEPT ![t].pc = "gr_save", ![t].data = InMap]
               /\ UNCHANGED <<ReputationMutex, bucket, ret>>
          ELSE ReturnData(t, created, MapPut(ReputationScores, ip, created), bucket)
    /\ UNCHANGED <<ReputationDB, ReputationEnabled, ReputationMinScore,
                   ReputationPersistToDB, ReputationDecayInterval, decayRunning,
                   nextDecay, now, phase>>

\* SaveReputationToDB(ip, data), after the lock was released; return data.
GetReputation_Save(t) ==
    /\ th[t].pc = "gr_save"
    /\ ReturnData(t, Deref(t), ReputationScores,
                  SaveReputationToDB(bucket, th[t].ip, Deref(t)))
    /\ UNCHANGED <<ReputationDB, ReputationEnabled, ReputationMinScore,
                   ReputationPersistToDB, ReputationDecayInterval, decayRunning,
                   nextDecay, now, phase>>

\* ------------------------------------------------- GetReputationScore, IsIPBlocked
\* A lookup that reports the lowest score for an IP it has no record of.
ReputationScoreOfUnknownZero(ip) ==
    IF ~ReputationEnabled THEN DefaultReputationScore
    ELSE IF ip \notin DOMAIN ReputationScores THEN MinReputationScore
    ELSE ReputationScores[ip].Score

\* The value GetReputationScore(ip) returns.
ReputationScoreOf(ip) ==
    IF ~ReputationEnabled THEN DefaultReputationScore
    ELSE IF ip \notin DOMAIN ReputationScores THEN DefaultReputationScore
    ELSE ReputationScores[ip].Score

\* The value IsIPBlocked(ip) returns.
IsIPBlockedOf(ip) ==
    IF ~ReputationEnabled THEN FALSE
    ELSE ReputationScoreOf(ip) < ReputationMinScore

\* GetReputationScore takes the read lock unless reputation is disabled.
CanReadReputation == ~ReputationEnabled \/ ReputationMutex = NoThread

GetReputationScore(t, ip) ==
    /\ phase = "run"
    /\ th[t].pc = "idle"
    /\ CanReadReputation
    /\ ret' = [op |-> "Score", ip |-> ip,
                                  val |-> ReputationScoreOf(ip)]
    /\ UNCHANGED <<ReputationScores, ReputationMutex, ReputationDB, bucket,
                   ReputationEnabled, ReputationMinScore, ReputationPersistToDB,
                   ReputationDecayInterval, decayRunning, nextDecay, now, phase, th>>

IsIPBlocked(t, ip) ==
    /\ phase = "run"
    /\ th[t].pc = "idle"
    /\ CanReadReputation
    /\ ret' = [op |-> "IsBlocked", ip |-> ip,
                                  val |-> IsIPBlockedOf(ip)]
    /\ UNCHANGED <<ReputationScores, ReputationMutex, ReputationDB, bucket,
                   ReputationEnabled, ReputationMinScore, ReputationPersistToDB,
                   ReputationDecayInterval, decayRunning, nextDecay, now, phase, th>>

\* ------------------------------------------------------ ReputationDecayRoutine
\* A decay that walks away from the default score instead of towards it.
DecayRecordAway(data, t) ==
    IF t - data.LastDecay >= ReputationDecayInterval
    THEN [data EXCEPT !.Score = IF data.Score < DefaultReputationScore
                                THEN data.Score - 1
                                ELSE IF data.Score > DefaultReputationScore
                                THEN data.Score + 1 ELSE data.Score,
                      !.LastDecay = t]
    ELSE data

\* A decay that also stamps LastUpdated.
DecayRecordTouched(data, t) ==
    IF t - data.LastDecay >= ReputationDecayInterval
    THEN [data EXCEPT !.Score = IF data.Score < DefaultReputationScore THEN data.Score + 1
                                ELSE IF data.Score > DefaultReputationScore
                                THEN data.Score - 1 ELSE data.Score,
                      !.LastDecay = t, !.LastUpdated = t]
    ELSE data

\* One record in one tick of the decay loop.
DecayRecord(data, t) ==
    IF t - data.LastDecay >= ReputationDecayInterval
    THEN LET up == IF data.Score + 1 > DefaultReputationScore
                   THEN DefaultReputationScore ELSE data.Score + 1
             down == IF data.Score - 1 < DefaultReputationScore
                     THEN DefaultReputationScore ELSE data.Score - 1
         IN [data EXCEPT !.Score = IF data.Score < DefaultReputationScore THEN up
                                   ELSE IF data.Score > DefaultReputationScore THEN down
                                   ELSE data.Score,
                         !.LastDecay = t]
    ELSE data

Stale(data, t) == t - data.LastDecay >= ReputationDecayInterval

\* One tick of the ticker: the whole loop body, under the write lock.
ReputationDecayRoutine ==
    /\ decayRunning
    /\ now >= nextDecay
    /\ ReputationMutex = NoThread
    /\ LET decayed == [ip \in DOMAIN ReputationScores |->
                          DecayRecord(ReputationScores[ip], now)]
           saved == {ip \in DOMAIN ReputationScores : Stale(ReputationScores[ip], now)}
       IN /\ ReputationScores' = decayed
          /\ bucket' = IF ReputationPersistToDB /\ ReputationDB = "open"
                       THEN [ip \in (DOMAIN bucket) \cup saved |->
                                IF ip \in saved THEN decayed[ip] ELSE bucket[ip]]
                       ELSE bucket
    /\ nextDecay' = nextDecay + ReputationDecayInterval
    /\ UNCHANGED <<ReputationMutex, ReputationDB,
                   ReputationEnabled, ReputationMinScore, ReputationPersistToDB,
                   ReputationDecayInterval, decayRunning, now, phase, th, ret>>

\* -------------------------------------------------------- CleanupOldReputation
CleanupDays == {0, 1}

CleanupOldReputation(daysOld) ==
    /\ phase = "run"
    /\ IF ~ReputationPersistToDB \/ ReputationDB = "nil"
       THEN UNCHANGED <<ReputationScores, bucket, th>>
       ELSE /\ ReputationMutex = NoThread
            /\ LET cutoff == now - daysOld * SecondsPerDay
                   gone == {ip \in DOMAIN ReputationScores :
                               /\ ReputationScores[ip].LastUpdated < cutoff
                               /\ ReputationScores[ip].Score = DefaultReputationScore}
               IN /\ ReputationScores' =
                        [ip \in (DOMAIN ReputationScores) \ gone |-> ReputationScores[ip]]
                  /\ bucket' = IF ReputationDB = "open"
                               THEN [ip \in (DOMAIN bucket) \ gone |-> bucket[ip]]
                               ELSE bucket
                  /\ th' = Detach(th, ReputationScores, gone)
    /\ ret' = [op |-> "Cleanup", days |-> daysOld]
    /\ UNCHANGED <<ReputationMutex, ReputationDB,
                   ReputationEnabled, ReputationMinScore, ReputationPersistToDB,
                   ReputationDecayInterval, decayRunning, nextDecay, now, phase>>

\* ------------------------------------------------------------------ the clock
Tick ==
    /\ phase = "run"
    /\ now < MaxTime
    /\ now' = now + 1
    /\ UNCHANGED <<phase, ret>>

\* =====================================================================
\* Connection limiter
\* =====================================================================
DefaultMaxConcurrentConnPerIP == 100
DefaultMaxConnRatePerIP == 10
DefaultMaxHalfOpenPerIP == 20
ConnectionRateWindow == 1

\* The model lets ActiveConnections[ip] grow to MaxActive, a rate window to
\* MaxStamps timestamps and HalfOpenConnections[ip] to MaxHalf.
MaxActive == 2
MaxStamps == 2
MaxHalf == 1

VARIABLES
    ActiveConnections,       \* map ip -> count
    ConnectionRate,          \* map ip -> sequence of timestamps
    HalfOpenConnections,     \* map ip -> count
    MaxConcurrentConnPerIP,
    MaxConnRatePerIP,
    MaxHalfOpenPerIP,
    EnableSynFloodProtection,
    conn                     \* each caller: its connection's progress

limiterVars == <<ActiveConnections, ConnectionRate, HalfOpenConnections,
                 MaxConcurrentConnPerIP, MaxConnRatePerIP, MaxHalfOpenPerIP,
                 EnableSynFloodProtection>>
connVars == <<limiterVars, conn>>

NoConn == [pc |-> "idle", ip |-> "none"]

\* m[k] of a Go map of slices: the nil slice when the key is absent
MapGetSeq(m, k) == IF k \in DOMAIN m THEN m[k] ELSE << >>

ConnectionConfig(conc, rate, half, syn) ==
    [MaxConcurrentPerIP |-> conc, MaxConnectionRatePerIP |-> rate,
     MaxHalfOpenPerIP |-> half, EnableSynFloodProtection |-> syn]
ConnectionConfigs ==
    {ConnectionConfig(0, 0, 0, FALSE), ConnectionConfig(1, 2, 1, TRUE)}

\* config.Load, the connection limits.
LoadConnectionLimits(cfg) ==
    /\ MaxConcurrentConnPerIP' = IF cfg.MaxConcurrentPerIP > 0
                                 THEN cfg.MaxConcurrentPerIP ELSE MaxConcurrentConnPerIP
    /\ MaxConnRatePerIP' = IF cfg.MaxConnectionRatePerIP > 0
                           THEN cfg.MaxConnectionRatePerIP ELSE MaxConnRatePerIP
    /\ MaxHalfOpenPerIP' = IF cfg.MaxHalfOpenPerIP > 0
                           THEN cfg.MaxHalfOpenPerIP ELSE MaxHalfOpenPerIP
    /\ EnableSynFloodProtection' = cfg.EnableSynFloodProtection

\* The timestamps of a window that lie inside ConnectionRateWindow at time t.
ValidTimestamps(stamps, t) ==
    SelectSeq(stamps, LAMBDA ts : t - ts < ConnectionRateWindow)

\* A check that lets the connection through when a count equals its cap.
CheckConnectionLimitOffByOne(active, rate, half, ip, t, maxConc, maxRate, maxHalf, syn) ==
    IF MapGet(active, ip) > maxConc
    THEN [ok |-> FALSE, rate |-> rate]
    ELSE LET valid == ValidTimestamps(MapGetSeq(rate, ip), t)
             pruned == MapPut(rate, ip, valid)
         IN IF Len(valid) > maxRate THEN [ok |-> FALSE, rate |-> pruned]
            ELSE IF syn /\ MapGet(half, ip) > maxHalf
            THEN [ok |-> FALSE, rate |-> pruned]
            ELSE [ok |-> TRUE, rate |-> pruned]

\* CheckConnectionLimit on the maps given, at time t, under the limits given:
\* the value returned and the rate map it leaves.
CheckConnectionLimitOf(active, rate, half, ip, t, maxConc, maxRate, maxHalf, syn) ==
    IF MapGet(active, ip) >= maxConc
    THEN [ok |-> FALSE, rate |-> rate]
    ELSE LET valid == ValidTimestamps(MapGetSeq(rate, ip), t)
             pruned == MapPut(rate, ip, valid)
         IN IF Len(valid) >= maxRate THEN [ok |-> FALSE, rate |-> pruned]
            ELSE IF syn /\ MapGet(half, ip) >= maxHalf
            THEN [ok |-> FALSE, rate |-> pruned]
            ELSE [ok |-> TRUE, rate |-> pruned]

\* IncrementConnection on the maps given, at time t.
IncrementConnectionOf(active, rate, ip, t) ==
    [active |-> MapPut(active, ip, MapGet(active, ip) + 1),
     rate |-> MapPut(rate, ip, Append(MapGetSeq(rate, ip), t))]

\* A decrement without the floor at zero.
DecrementCountUnguarded(m, ip) ==
    LET n == MapGet(m, ip) - 1
    IN IF n = 0 THEN MapDel(m, ip) ELSE MapPut(m, ip, n)

\* DecrementConnection and DecrementHalfOpen on their map: decrement when
\* positive, delete the key when the count is zero.
DecrementCount(m, ip) ==
    LET n == IF MapGet(m, ip) > 0 THEN MapGet(m, ip) - 1 ELSE MapGet(m, ip)
    IN IF n = 0 THEN MapDel(m, ip) ELSE MapPut(m, ip, n)

\* The value GetConnectionCount(ip) returns.
ConnectionCountOf(ip) == MapGet(ActiveConnections, ip)

CheckConnectionLimit(ip) ==
    /\ phase = "run"
    /\ LET r == CheckConnectionLimitOf(ActiveConnections, ConnectionRate,
                                       HalfOpenConnections, ip, now,
                                       MaxConcurrentConnPerIP, MaxConnRatePerIP,
                                       MaxHalfOpenPerIP, EnableSynFloodProtection)
       IN /\ ConnectionRate' = r.rate
          /\ ret' = [op |-> "Check", ip |-> ip, val |-> r.ok]
    /\ UNCHANGED <<ActiveConnections, HalfOpenConnections, MaxConcurrentConnPerIP,
                   MaxConnRatePerIP, MaxHalfOpenPerIP, EnableSynFloodProtection,
                   now, phase>>

IncrementConnection(ip) ==
    /\ phase = "run"
    /\ MapGet(ActiveConnections, ip) < MaxActive
    /\ Len(MapGetSeq(ConnectionRate, ip)) < MaxStamps
    /\ LET r == IncrementConnectionOf(ActiveConnections, ConnectionRate, ip, now)
       IN /\ ActiveConnections' = r.active
          /\ ConnectionRate' = r.rate
    /\ UNCHANGED <<HalfOpenConnections, MaxConcurrentConnPerIP,
                   MaxConnRatePerIP, MaxHalfOpenPerIP, EnableSynFloodProtection,
                   now, phase, ret>>

DecrementConnection(ip) ==
    /\ phase = "run"
    /\ ActiveConnections' = DecrementCount(ActiveConnections, ip)
    /\ ret' = [op |-> "Decrement", ip |-> ip]
    /\ UNCHANGED <<ConnectionRate, HalfOpenConnections, MaxConcurrentConnPerIP,
                   MaxConnRatePerIP, MaxHalfOpenPerIP, EnableSynFloodProtection,
                   now, phase>>

IncrementHalfOpen(ip) ==
    /\ phase = "run"
    /\ MapGet(HalfOpenConnections, ip) < MaxHalf
    /\ HalfOpenConnections' =
          IF ~EnableSynFloodProtection THEN HalfOpenConnections
          ELSE MapPut(HalfOpenConnections, ip, MapGet(HalfOpenConnections, ip) + 1)
    /\ UNCHANGED <<ActiveConnections, ConnectionRate, MaxConcurrentConnPerIP,
                   MaxConnRatePerIP, MaxHalfOpenPerIP, EnableSynFloodProtection,
                   now, phase, ret>>

DecrementHalfOpen(ip) ==
    /\ phase = "run"
    /\ HalfOpenConnections' =
          IF ~EnableSynFloodProtection THEN HalfOpenConnections
          ELSE DecrementCount(HalfOpenConnections, ip)
    /\ ret' = [op |-> "DecrementHalfOpen", ip |-> ip]
    /\ UNCHANGED <<ActiveConnections, ConnectionRate, MaxConcurrentConnPerIP,
                   MaxConnRatePerIP, MaxHalfOpenPerIP, EnableSynFloodProtection,
                   now, phase>>

GetConnectionCount(ip) ==
    /\ phase = "run"
    /\ ret' = [op |-> "Count", ip |-> ip, val |-> ConnectionCountOf(ip)]
    /\ UNCHANGED <<limiterVars, now, phase>>

\* A caller that accepts a connection from ip: CheckConnectionLimit, then
\* IncrementConnection when the check returned true, then DecrementConnection
\* when the connection closes.
Accept_Check(t, ip) ==
    /\ conn[t].pc = "idle"
    /\ CheckConnectionLimit(ip)
    /\ conn' = IF ret'.val THEN [conn EXCEPT ![t] = [pc |-> "allowed", ip |-> ip]]
               ELSE conn

Accept_Increment(t) ==
    /\ conn[t].pc = "allowed"
    /\ IncrementConnection(conn[t].ip)
    /\ conn' = [conn EXCEPT ![t].pc = "open"]

Accept_Close(t) ==
    /\ conn[t].pc = "open"
    /\ DecrementConnection(conn[t].ip)
    /\ conn' = [conn EXCEPT ![t] = NoConn]

\* CleanupOldEntries, run by StartCleanupRoutine after every sleep.
\* A cleanup that prunes the windows and keeps the empty ones.
CleanupOldEntriesKeepEmpty ==
    /\ phase = "run"
    /\ ConnectionRate' = [ip \in DOMAIN ConnectionRate |->
                             ValidTimestamps(ConnectionRate[ip], now)]
    /\ ret' = [op |-> "CleanupEntries", removed |-> {}]
    /\ UNCHANGED <<ActiveConnections, HalfOpenConnections, MaxConcurrentConnPerIP,
                   MaxConnRatePerIP, MaxHalfOpenPerIP, EnableSynFloodProtection,
                   now, phase>>

CleanupOldEntries ==
    /\ phase = "run"
    /\ LET kept == {ip \in DOMAIN ConnectionRate :
                       Len(ValidTimestamps(ConnectionRate[ip], now)) # 0}
       IN /\ ConnectionRate' = [ip \in kept |->
                                   ValidTimestamps(ConnectionRate[ip], now)]
          /\ ret' = [op |-> "CleanupEntries",
                     removed |-> (DOMAIN ConnectionRate) \ kept]
    /\ UNCHANGED <<ActiveConnections, HalfOpenConnections, MaxConcurrentConnPerIP,
                   MaxConnRatePerIP, MaxHalfOpenPerIP, EnableSynFloodProtection,
                   now, phase>>

\* =====================================================================
\* Difficulty controller
\* =====================================================================
DefaultMinDifficulty == 1
DefaultMaxDifficulty == 10
BaseDifficulty == 5

VARIABLES
    DynamicDifficultyEnabled,
    MinDifficulty,
    MaxDifficulty,
    DomainsData              \* map domain name -> telemetry (domains.DomainsData)

diffVars == <<DynamicDifficultyEnabled, MinDifficulty, MaxDifficulty, DomainsData>>

\* "example.com" is the domain of config.json, "debug" the domain Load always
\* adds, "unknown.test" a name no domain carries.
ConfiguredDomain == "example.com"
DomainNames == {ConfiguredDomain, "debug", "unknown.test"}

DomainData(stage, stage2Difficulty, raw, bypass) ==
    [Stage |-> stage, Stage2Difficulty |-> stage2Difficulty,
     RawAttack |-> raw, BypassAttack |-> bypass]

ChallengeConfig(dynamic, min, max, stage2Difficulty) ==
    [DynamicDifficulty |-> dynamic, MinDifficulty |-> min, MaxDifficulty |-> max,
     Stage2Difficulty |-> stage2Difficulty]
ChallengeConfigs ==
    {ChallengeConfig(dyn, mm[1], mm[2], s2) :
        dyn \in BOOLEAN, mm \in {<<0, 0>>, <<6, 8>>, <<2, 4>>}, s2 \in {0, 1, 12}}

\* config.Load, the challenge settings and the domain table.
LoadChallenge(cfg) ==
    /\ DynamicDifficultyEnabled' = IF cfg.DynamicDifficulty THEN TRUE
                                   ELSE DynamicDifficultyEnabled
    /\ MinDifficulty' = IF cfg.MinDifficulty > 0 THEN cfg.MinDifficulty ELSE MinDifficulty
    /\ MaxDifficulty' = IF cfg.MaxDifficulty > 0 THEN cfg.MaxDifficulty ELSE MaxDifficulty
    /\ DomainsData' =
          MapPut(MapPut(DomainsData, ConfiguredDomain,
                        DomainData(1, IF cfg.Stage2Difficulty = 0 THEN 5
                                      ELSE cfg.Stage2Difficulty, FALSE, FALSE)),
                 "debug", DomainData(0, 0, FALSE, FALSE))

StageAdjustment(stage) ==
    IF stage = 3 THEN 1 ELSE IF stage = 2 THEN 0 ELSE -1

\* A reputation adjustment that leaves the default score 50 without a surcharge.
ReputationAdjustmentNeutralAtDefault(reputationScore) ==
    IF reputationScore < 30 THEN 3
    ELSE IF reputationScore < 50 THEN 2
    ELSE IF reputationScore < 51 THEN 0
    ELSE IF reputationScore < 70 THEN 1
    ELSE IF reputationScore >= 90 THEN -1
    ELSE 0

ReputationAdjustment(reputationScore) ==
    IF reputationScore < 30 THEN 3
    ELSE IF reputationScore < 50 THEN 2
    ELSE IF reputationScore < 70 THEN 1
    ELSE IF reputationScore >= 90 THEN -1
    ELSE 0

AttackAdjustment(domainData) ==
    IF domainData.BypassAttack THEN 2 ELSE IF domainData.RawAttack THEN 1 ELSE 0

ClampDifficulty(d) ==
    LET lo == IF d < MinDifficulty THEN MinDifficulty ELSE d
    IN IF lo > MaxDifficulty THEN MaxDifficulty ELSE lo

CalculateDynamicDifficulty(ip, domainName, baseDifficulty) ==
    IF ~DynamicDifficultyEnabled THEN baseDifficulty
    ELSE IF domainName \notin DOMAIN DomainsData THEN baseDifficulty
    ELSE LET domainData == DomainsData[domainName]
         IN ClampDifficulty(baseDifficulty
                            + ReputationAdjustment(ReputationScoreOf(ip))
                            + AttackAdjustment(domainData)
                            + StageAdjustment(domainData.Stage))

\* The value GetEffectiveDifficulty(ip, domainName) returns.
EffectiveDifficultyOf(ip, domainName) ==
    IF domainName \notin DOMAIN DomainsData THEN BaseDifficulty
    ELSE LET baseDiff == IF DomainsData[domainName].Stage2Difficulty = 0
                         THEN BaseDifficulty
                         ELSE DomainsData[domainName].Stage2Difficulty
         IN CalculateDynamicDifficulty(ip, domainName, baseDiff)

\* GetEffectiveDifficulty: read-locked lookups of the domain table and of the
\* reputation store.
GetEffectiveDifficulty(ip, domainName) ==
    /\ phase = "run"
    /\ CanReadReputation
    /\ ret' = [op |-> "Difficulty", ip |-> ip, domain |-> domainName,
               val |-> EffectiveDifficultyOf(ip, domainName)]
    /\ UNCHANGED <<repVars, diffVars, now, phase>>

\* The attack detection outside the core writes a domain's stage and attack
\* flags under the domain-telemetry lock.
Stages == {1, 2, 3}
SetDomainTelemetry(domainName, stage, raw, bypass) ==
    /\ phase = "run"
    /\ domainName \in DOMAIN DomainsData
    /\ DomainsData' = [DomainsData EXCEPT ![domainName].Stage = stage,
                                          ![domainName].RawAttack = raw,
                                          ![domainName].BypassAttack = bypass]
    /\ UNCHANGED <<DynamicDifficultyEnabled, MinDifficulty, MaxDifficulty,
                   repVars, now, phase, ret>>

\* =====================================================================
\* Adaptive controller
\* =====================================================================
\* A float64 is modelled by the exact fraction <<numerator, denominator>> in
\* lowest terms, denominator > 0.
RECURSIVE Gcd(_, _)
Gcd(a, b) == IF b = 0 THEN a ELSE Gcd(b, a % b)
Abs(x) == IF x < 0 THEN -x ELSE x
Rat(n, d) == LET g == Gcd(Abs(n), d) IN <<n \div g, d \div g>>
RMul(x, y) == Rat(x[1] * y[1], x[2] * y[2])
RAdd(x, y) == Rat(x[1] * y[2] + y[1] * x[2], x[2] * y[2])
RSub(x, y) == Rat(x[1] * y[2] - y[1] * x[2], x[2] * y[2])
RLess(x, y) == x[1] * y[2] < y[1] * x[2]
\* int(x) of a float64 x >= 0
RInt(x) == x[1] \div x[2]

DefaultAdaptiveBaseMultiplier == Rat(1, 1)
DefaultAdaptiveAttackMultiplier == Rat(3, 10)
DefaultAdaptiveDecayRate == Rat(1, 10)
RawAttackFactor == Rat(7, 10)
RawAttackFloorFactor == Rat(3, 2)
WhitelistTTL == 24 * 3600
WhitelistRetention == 7 * 24 * 3600
MinLearningRequests == 10
ProvenRequests == 100

\* The model keeps every multiplier's numerator and denominator within MaxDen, the
\* RequestCounts of all entries together within MaxRequestCount and a series within MaxSeries outcomes;
\* the clock of the trust list runs to MaxDays days.
MaxDen == 100
MaxRequestCount == 10
MaxOutcomes == 12
MaxSeries == 17
MaxDays == 8

VARIABLES
    AdaptiveRateLimitEnabled,
    AdaptiveBaseMultiplier,
    AdaptiveAttackMultiplier,
    AdaptiveDecayRate,
    AdaptiveLearningEnabled,
    AdaptiveMultipliers,     \* map domain name -> multiplier
    IPWhitelist,             \* map ip -> WhitelistEntry
    adaptiveRunning,         \* StartAdaptiveRateLimitRoutine was called
    series,                  \* each ip: outcomes its series has reported so far
    fused,                   \* the build rounds x*y + z once (arm64, ppc64, s390x)
    learned                  \* each ip: outcomes and successes since its entry was created

adaptVars == <<AdaptiveRateLimitEnabled, AdaptiveBaseMultiplier,
               AdaptiveAttackMultiplier, AdaptiveDecayRate, AdaptiveLearningEnabled,
               AdaptiveMultipliers, IPWhitelist, adaptiveRunning, series, fused,
               learned>>

\* AdaptiveRateLimit.{Enabled, BaseMultiplier, AttackMultiplier, DecayRate,
\* LearningEnabled} of config.json; a number left out decodes as 0.
AdaptiveConfig(enabled, base, attack, decay, learning) ==
    [Enabled |-> enabled, BaseMultiplier |-> base, AttackMultiplier |-> attack,
     DecayRate |-> decay, LearningEnabled |-> learning]
Zero == Rat(0, 1)
AdaptiveConfigs ==
    {AdaptiveConfig(FALSE, Zero, Zero, Zero, FALSE),
     AdaptiveConfig(TRUE, Zero, Zero, Zero, TRUE),
     AdaptiveConfig(TRUE, Rat(1, 1), Rat(4, 5), Rat(1, 2), FALSE),
     AdaptiveConfig(TRUE, Zero, Rat(2, 1), Zero, TRUE)}

\* config.Load, the adaptive rate limit.
LoadAdaptive(cfg) ==
    IF cfg.Enabled
    THEN /\ AdaptiveRateLimitEnabled' = TRUE
         /\ AdaptiveBaseMultiplier' = IF RLess(Zero, cfg.BaseMultiplier)
                                      THEN cfg.BaseMultiplier ELSE AdaptiveBaseMultiplier
         /\ AdaptiveAttackMultiplier' = IF RLess(Zero, cfg.AttackMultiplier)
                                        THEN cfg.AttackMultiplier
                                        ELSE AdaptiveAttackMultiplier
         /\ AdaptiveDecayRate' = IF RLess(Zero, cfg.DecayRate)
                                 THEN cfg.DecayRate ELSE AdaptiveDecayRate
         /\ AdaptiveLearningEnabled' = cfg.LearningEnabled
         /\ adaptiveRunning' = TRUE
         /\ fused' \in IF cfg.LearningEnabled THEN BOOLEAN ELSE {fused}
    ELSE UNCHANGED <<AdaptiveRateLimitEnabled, AdaptiveBaseMultiplier,
                     AdaptiveAttackMultiplier, AdaptiveDecayRate,
                     AdaptiveLearningEnabled, adaptiveRunning, fused>>

\* ------------------------------------------------------------- the multiplier
\* The value GetAdaptiveMultiplier(domainName) returns.
AdaptiveMultiplierOf(domainName) ==
    IF ~AdaptiveRateLimitEnabled THEN AdaptiveBaseMultiplier
    ELSE IF domainName \notin DOMAIN AdaptiveMultipliers THEN AdaptiveBaseMultiplier
    ELSE AdaptiveMultipliers[domainName]

\* UpdateAdaptiveMultiplier on the map given.
UpdateAdaptiveMultiplierOf(multipliers, domainName, isUnderAttack, bypassAttack) ==
    IF ~AdaptiveRateLimitEnabled THEN multipliers
    ELSE LET currentMultiplier == IF domainName \in DOMAIN multipliers
                                  THEN multipliers[domainName]
                                  ELSE AdaptiveBaseMultiplier
         IN IF isUnderAttack
            THEN IF bypassAttack
                 THEN LET m == RMul(currentMultiplier, AdaptiveAttackMultiplier)
                      IN MapPut(multipliers, domainName,
                                IF RLess(m, AdaptiveAttackMultiplier)
                                THEN AdaptiveAttackMultiplier ELSE m)
                 ELSE LET m == RMul(currentMultiplier, RawAttackFactor)
                          floor == RMul(AdaptiveAttackMultiplier, RawAttackFloorFactor)
                      IN MapPut(multipliers, domainName,
                                IF RLess(m, floor) THEN floor ELSE m)
            ELSE IF RLess(currentMultiplier, AdaptiveBaseMultiplier)
                 THEN LET decayAmount == RMul(RSub(AdaptiveBaseMultiplier,
                                                   currentMultiplier),
                                              AdaptiveDecayRate)
                          m == RAdd(currentMultiplier, decayAmount)
                      IN MapPut(multipliers, domainName,
                                IF RLess(AdaptiveBaseMultiplier, m)
                                THEN AdaptiveBaseMultiplier ELSE m)
                 ELSE multipliers

\* A limit taken from the multiplier alone, without the floor at
\* baseLimit * AdaptiveAttackMultiplier.
AdaptiveRateLimitNoFloor(baseLimit, domainName) ==
    IF ~AdaptiveRateLimitEnabled THEN baseLimit
    ELSE RInt(RMul(Rat(baseLimit, 1), AdaptiveMultiplierOf(domainName)))

\* The value GetAdaptiveRateLimit(baseLimit, domainName) returns.
AdaptiveRateLimitOf(baseLimit, domainName) ==
    IF ~AdaptiveRateLimitEnabled THEN baseLimit
    ELSE LET adaptiveLimit == RMul(Rat(baseLimit, 1), AdaptiveMultiplierOf(domainName))
             minimum == RMul(Rat(baseLimit, 1), AdaptiveAttackMultiplier)
         IN RInt(IF RLess(adaptiveLimit, minimum) THEN minimum ELSE adaptiveLimit)

GetAdaptiveMultiplier(domainName) ==
    /\ phase = "run"
    /\ ret' = [op |-> "Multiplier", domain |-> domainName,
               val |-> AdaptiveMultiplierOf(domainName)]
    /\ UNCHANGED <<adaptVars, now, phase>>

BaseLimits == {0, 10}
GetAdaptiveRateLimit(baseLimit, domainName) ==
    /\ phase = "run"
    /\ ret' = [op |-> "AdaptiveLimit", domain |-> domainName, base |-> baseLimit,
               val |-> AdaptiveRateLimitOf(baseLimit, domainName)]
    /\ UNCHANGED <<adaptVars, now, phase>>

\* -------------------------------------------------------------- the trust list
\* A WhitelistEntry without AddedAt, which is written once and never read.
\* ------------------------------------------------------------------ float64
\* The success rate of a trust entry is a float64, and its update rounds
\* after each operation. A natural number of any size is the sequence of its
\* digits in base Limb, lowest first and without leading zeros; a float64
\* x >= 0 is [m, e] for x = m / 2^e, with m of exactly MantissaBits bits, and
\* [<< >>, 0] for 0.
Limb == 2^15
MantissaBits == 53
DivisionBits == 2 * MantissaBits

RECURSIVE BFromInt(_)
BFromInt(n) == IF n = 0 THEN << >> ELSE <<n % Limb>> \o BFromInt(n \div Limb)

RECURSIVE BTrim(_)
BTrim(a) ==
    IF a # << >> /\ a[Len(a)] = 0 THEN BTrim(SubSeq(a, 1, Len(a) - 1)) ELSE a

RECURSIVE BAddCarry(_, _, _)
BAddCarry(a, b, c) ==
    IF a = << >> /\ b = << >> THEN BFromInt(c)
    ELSE LET x == IF a = << >> THEN 0 ELSE a[1]
             y == IF b = << >> THEN 0 ELSE b[1]
             s == x + y + c
         IN <<s % Limb>> \o BAddCarry(IF a = << >> THEN a ELSE Tail(a),
                                      IF b = << >> THEN b ELSE Tail(b),
                                      s \div Limb)
BAdd(a, b) == BAddCarry(a, b, 0)

RECURSIVE BMulCarry(_, _, _)
BMulCarry(a, k, c) ==
    IF a = << >> THEN BFromInt(c)
    ELSE LET p == a[1] * k + c
         IN <<p % Limb>> \o BMulCarry(Tail(a), k, p \div Limb)
\* a * k, for k < Limb
BMulInt(a, k) == BTrim(BMulCarry(a, k, 0))

BShiftLimbs(a, n) == IF a = << >> THEN a ELSE [i \in 1..n |-> 0] \o a

RECURSIVE BMul(_, _)
BMul(a, b) ==
    IF b = << >> THEN << >>
    ELSE BAdd(BMulInt(a, b[1]), BShiftLimbs(BMul(a, Tail(b)), 1))

\* a divided by k, for 0 < k <= Limb: quotient and remainder
RECURSIVE BDivDigits(_, _)
BDivDigits(a, k) ==
    IF a = << >> THEN [q |-> << >>, r |-> 0]
    ELSE LET high == BDivDigits(Tail(a), k)
             cur == high.r * Limb + a[1]
         IN [q |-> <<cur \div k>> \o high.q, r |-> cur % k]
BDivInt(a, k) == LET d == BDivDigits(a, k) IN [q |-> BTrim(d.q), r |-> d.r]

\* a * 2^n and the whole part of a / 2^n
BShl(a, n) == BShiftLimbs(BMulInt(a, 2^(n % 15)), n \div 15)
BShr(a, n) ==
    LET limbs == n \div 15
    IN IF Len(a) <= limbs THEN << >>
       ELSE BDivInt(SubSeq(a, limbs + 1, Len(a)), 2^(n % 15)).q

RECURSIVE BitsOf(_)
BitsOf(n) == IF n = 0 THEN 0 ELSE 1 + BitsOf(n \div 2)
BBits(a) == IF a = << >> THEN 0 ELSE 15 * (Len(a) - 1) + BitsOf(a[Len(a)])
BOdd(a) == a # << >> /\ a[1] % 2 = 1

RECURSIVE BLess(_, _)
BLess(a, b) ==
    IF Len(a) # Len(b) THEN Len(a) < Len(b)
    ELSE IF a = << >> THEN FALSE
    ELSE IF a[Len(a)] # b[Len(b)] THEN a[Len(a)] < b[Len(b)]
    ELSE BLess(BTrim(SubSeq(a, 1, Len(a) - 1)), BTrim(SubSeq(b, 1, Len(b) - 1)))

FZero == [m |-> << >>, e |-> 0]

\* The float64 nearest to p / 2^e, ties to even.
FRound(p, e) ==
    LET n == BBits(p)
    IN IF n = 0 THEN FZero
       ELSE IF n <= MantissaBits
       THEN [m |-> BShl(p, MantissaBits - n), e |-> e + MantissaBits - n]
       ELSE LET k == n - MantissaBits
                withRound == BShr(p, k - 1)
                sticky == BShl(withRound, k - 1) # p
                q == BShr(withRound, 1)
                up == BOdd(withRound) /\ (sticky \/ BOdd(q))
                rounded == IF up THEN BAdd(q, <<1>>) ELSE q
            IN IF BBits(rounded) > MantissaBits
               THEN [m |-> BShr(rounded, 1), e |-> e - k - 1]
               ELSE [m |-> rounded, e |-> e - k]

\* float64(a) / float64(c), for integers 0 <= a < Limb and 0 < c < Limb
FDivInt(a, c) ==
    LET d == BDivInt(BShl(BFromInt(a), DivisionBits), c)
    IN IF d.r = 0 THEN FRound(d.q, DivisionBits)
       ELSE FRound(BAdd(BShl(d.q, 1), <<1>>), DivisionBits + 1)

FMax(i, j) == IF i < j THEN j ELSE i

\* The exact sum x + y as p / 2^e
FSum(x, y) ==
    LET e == FMax(x.e, y.e)
    IN [p |-> BAdd(BShl(x.m, e - x.e), BShl(y.m, e - y.e)), e |-> e]

FMul(x, y) == FRound(BMul(x.m, y.m), x.e + y.e)
FAdd(x, y) == LET s == FSum(x, y) IN FRound(s.p, s.e)
\* x * y + z rounded once, the fused multiply-add
FMulAdd(x, y, z) ==
    LET s == FSum([m |-> BMul(x.m, y.m), e |-> x.e + y.e], z)
    IN FRound(s.p, s.e)
FLess(x, y) ==
    LET e == FMax(x.e, y.e)
    IN BLess(BShl(x.m, e - x.e), BShl(y.m, e - y.e))

WhitelistEntry(ip, requestCount, successRate, lastSeen) ==
    [IP |-> ip, RequestCount |-> requestCount, SuccessRate |-> successRate,
     LastSeen |-> lastSeen]

\* The value CheckWhitelist(ip) returns.
CheckWhitelistOf(ip) ==
    /\ AdaptiveLearningEnabled
    /\ ip \in DOMAIN IPWhitelist
    /\ ~(now - IPWhitelist[ip].LastSeen > WhitelistTTL)

CheckWhitelist(ip) ==
    /\ phase = "run"
    /\ ret' = [op |-> "CheckWhitelist", ip |-> ip, val |-> CheckWhitelistOf(ip)]
    /\ UNCHANGED <<adaptVars, now, phase>>

\* UpdateWhitelistLearning on the map given, at time t.
UpdateWhitelistLearningOf(whitelist, ip, success, t) ==
    IF ~AdaptiveLearningEnabled THEN whitelist
    ELSE LET entry == IF ip \in DOMAIN whitelist THEN whitelist[ip]
                      ELSE WhitelistEntry(ip, 0, FZero, t)
             n == entry.RequestCount + 1
             share == FDivInt(n - 1, n)
             rate == IF ~success THEN FMul(share, entry.SuccessRate)
                     ELSE IF fused
                     THEN FMulAdd(share, entry.SuccessRate, FDivInt(1, n))
                     ELSE FAdd(FMul(share, entry.SuccessRate), FDivInt(1, n))
             updated == [entry EXCEPT !.RequestCount = n, !.LastSeen = t,
                                      !.SuccessRate = rate]
         IN IF n >= ProvenRequests /\ ~FLess(rate, FDivInt(95, 100))
            THEN MapPut(whitelist, ip, updated)
            ELSE IF n < MinLearningRequests
            THEN MapPut(whitelist, ip, updated)
            ELSE IF FLess(rate, FDivInt(1, 2))
            THEN MapDel(whitelist, ip)
            ELSE MapPut(whitelist, ip, updated)

NoOutcomes == [n |-> 0, s |-> 0]

UpdateWhitelistLearning(ip, success) ==
    /\ phase = "run"
    /\ IPWhitelist' = UpdateWhitelistLearningOf(IPWhitelist, ip, success, now)
    /\ learned' = IF ~AdaptiveLearningEnabled THEN learned
                  ELSE IF ip \notin DOMAIN IPWhitelist'
                  THEN [learned EXCEPT ![ip] = NoOutcomes]
                  ELSE LET old == IF ip \in DOMAIN IPWhitelist
                                  THEN learned[ip] ELSE NoOutcomes
                       IN [learned EXCEPT ![ip] =
                              [n |-> old.n + 1,
                               s |-> old.s + IF success THEN 1 ELSE 0]]
    /\ UNCHANGED <<AdaptiveRateLimitEnabled, AdaptiveBaseMultiplier,
                   AdaptiveAttackMultiplier, AdaptiveDecayRate,
                   AdaptiveLearningEnabled, AdaptiveMultipliers, adaptiveRunning, fused,
                   now, phase, ret>>

\* CleanupWhitelist on the map given, at time t.
CleanupWhitelistOf(whitelist, t) ==
    [ip \in {i \in DOMAIN whitelist : ~(t - whitelist[i].LastSeen > WhitelistRetention)}
        |-> whitelist[ip]]

RECURSIVE UpdateAllMultipliers(_, _)
UpdateAllMultipliers(multipliers, names) ==
    IF names = {} THEN multipliers
    ELSE LET d == CHOOSE x \in names : TRUE
             data == DomainsData[d]
         IN UpdateAllMultipliers(
                UpdateAdaptiveMultiplierOf(multipliers, d,
                                           data.RawAttack \/ data.BypassAttack,
                                           data.BypassAttack),
                names \ {d})

\* One tick of the routine StartAdaptiveRateLimitRoutine starts: every domain's
\* multiplier, then CleanupWhitelist.
AdaptiveRoutineTick ==
    /\ phase = "run"
    /\ adaptiveRunning
    /\ LET updated == UpdateAllMultipliers(AdaptiveMultipliers, DOMAIN DomainsData)
       IN /\ \A d \in DOMAIN updated : updated[d][1] <= MaxDen /\ updated[d][2] <= MaxDen
          /\ AdaptiveMultipliers' = updated
    /\ IPWhitelist' = CleanupWhitelistOf(IPWhitelist, now)
    /\ learned' = [ip \in IPs |-> IF ip \in DOMAIN IPWhitelist'
                                   THEN learned[ip] ELSE NoOutcomes]
    /\ UNCHANGED <<AdaptiveRateLimitEnabled, AdaptiveBaseMultiplier,
                   AdaptiveAttackMultiplier, AdaptiveDecayRate,
                   AdaptiveLearningEnabled, adaptiveRunning, series, fused,
                   now, phase>>
    /\ ret' = NoRet

\* A client whose requests succeed MinLearningRequests times, then fail five
\* times, then end either way.
SeriesSuccesses == 10
SeriesFailures == 5
Series_Outcome(ip, success) ==
    /\ series[ip] < MaxSeries
    /\ series[ip] < SeriesSuccesses => success
    /\ (series[ip] >= SeriesSuccesses /\ series[ip] < SeriesSuccesses + SeriesFailures)
          => ~success
    /\ UpdateWhitelistLearning(ip, success)
    /\ series' = [series EXCEPT ![ip] = @ + 1]

\* The clock of the trust list moves in steps of four days.
TickDays ==
    /\ phase = "run"
    /\ now + 4 * SecondsPerDay <= MaxDays * SecondsPerDay
    /\ now' = now + 4 * SecondsPerDay
    /\ UNCHANGED <<phase, ret>>

\* =====================================================================
\* Geo/ASN resolver
\* =====================================================================
GeoCacheTTL == 24 * 3600

\* The clock of the geo cache runs to MaxGeoHours hours.
MaxGeoHours == 72

VARIABLES
    GeoFilteringEnabled,
    GeoFilterMode,
    AllowedCountries,
    BlockedCountries,
    BlockedASN,
    ChallengeUnknown,
    GeoCache,                \* map ip -> GeoData
    geo                      \* each goroutine: its call of GetGeoData in progress

geoVars == <<GeoFilteringEnabled, GeoFilterMode, AllowedCountries, BlockedCountries,
             BlockedASN, ChallengeUnknown, GeoCache, geo>>

NoLookup == [pc |-> "idle", op |-> "none", ip |-> "none"]

\* A GeoData with the fields the filter reads.
GeoData(asn, countryCode, cachedAt) ==
    [ASN |-> asn, CountryCode |-> countryCode, Status |-> "ok", CachedAt |-> cachedAt]

\* strings.EqualFold on the country codes of the model.
CountryCodes == {"RU", "ru", "US", "us"}
Fold(code) ==
    CASE code = "RU" -> "ru"
      [] code = "US" -> "us"
      [] OTHER -> code
\* A comparison of country codes letter by letter.
EqualExact(a, b) == a = b

EqualFold(a, b) == Fold(a) = Fold(b)

\* Geo.{Enabled, Mode, Allowed, Blocked, BlockedASN, ChallengeUnknown} of the
\* configuration.
GeoConfig(enabled, mode, allowed, blocked, blockedASN, challengeUnknown) ==
    [Enabled |-> enabled, Mode |-> mode, Allowed |-> allowed, Blocked |-> blocked,
     BlockedASN |-> blockedASN, ChallengeUnknown |-> challengeUnknown]
GeoConfigs ==
    {GeoConfig(FALSE, "blacklist", << >>, << >>, << >>, FALSE),
     GeoConfig(TRUE, "blacklist", << >>, <<"RU">>, << >>, FALSE),
     GeoConfig(TRUE, "whitelist", <<"us">>, <<"RU">>, <<64500>>, TRUE),
     GeoConfig(TRUE, "blacklist", <<"us">>, <<"RU">>, <<64500>>, TRUE)}

LoadGeo(cfg) ==
    /\ GeoFilteringEnabled' = cfg.Enabled
    /\ GeoFilterMode' = cfg.Mode
    /\ AllowedCountries' = cfg.Allowed
    /\ BlockedCountries' = cfg.Blocked
    /\ BlockedASN' = cfg.BlockedASN
    /\ ChallengeUnknown' = cfg.ChallengeUnknown

\* What the GET of GetGeoData can come back with: an error of the transport, a
\* status other than 200, a body that cannot be read or decoded, a document
\* whose status field is not "ok", or a document of the fields given.
FetchFailures ==
    {[kind |-> k] : k \in {"transport", "status", "read", "decode", "notok"}}
FetchedRecords ==
    {[kind |-> "ok", ASN |-> 64500, CountryCode |-> "US"],
     [kind |-> "ok", ASN |-> 64501, CountryCode |-> "ru"],
     [kind |-> "ok", ASN |-> 64501, CountryCode |-> "RU"],
     [kind |-> "ok", ASN |-> 64501, CountryCode |-> "US"]}
FetchOutcomes == FetchFailures \cup FetchedRecords
Failed(outcome) == outcome.kind # "ok"

\* The result (block, reason) of CheckGeoFilter once GetGeoData returned geoData.
GeoFilterOf(geoData) ==
    IF \E i \in 1..Len(BlockedASN) : geoData.ASN = BlockedASN[i]
    THEN [block |-> TRUE, reason |-> "asn"]
    ELSE IF GeoFilterMode = "whitelist"
    THEN IF \E i \in 1..Len(AllowedCountries) :
               EqualFold(geoData.CountryCode, AllowedCountries[i])
         THEN [block |-> FALSE, reason |-> ""]
         ELSE [block |-> TRUE, reason |-> "not whitelisted"]
    ELSE IF \E i \in 1..Len(BlockedCountries) :
               EqualFold(geoData.CountryCode, BlockedCountries[i])
         THEN [block |-> TRUE, reason |-> "blocked"]
         ELSE [block |-> FALSE, reason |-> ""]

\* The result of CheckGeoFilter once GetGeoData returned an error.
GeoFilterOnError ==
    IF ChallengeUnknown THEN [block |-> TRUE, reason |-> "challenge"]
    ELSE [block |-> FALSE, reason |-> ""]

\* What the caller of op gets when GetGeoData returns (geoData, nil).
GeoReturn(op, ip, geoData) ==
    IF op = "Lookup"
    THEN [op |-> "Lookup", ip |-> ip, err |-> "nil", rec |-> geoData]
    ELSE LET r == GeoFilterOf(geoData)
         IN [op |-> "CheckFilter", ip |-> ip, block |-> r.block, reason |-> r.reason]

\* What the caller of op gets when GetGeoData returns (nil, err).
GeoReturnError(op, ip, err) ==
    IF op = "Lookup"
    THEN [op |-> "Lookup", ip |-> ip, err |-> err, rec |-> Nil]
    ELSE [op |-> "CheckFilter", ip |-> ip, block |-> GeoFilterOnError.block,
          reason |-> GeoFilterOnError.reason]

\* What the caller of op gets while geo filtering is disabled.
GeoReturnDisabled(op, ip) ==
    IF op = "Lookup"
    THEN [op |-> "Lookup", ip |-> ip, err |-> "nil", rec |-> Nil]
    ELSE [op |-> "CheckFilter", ip |-> ip, block |-> FALSE, reason |-> ""]

GeoOps == {"Lookup", "CheckFilter"}

\* GetGeoData, called by itself or by CheckGeoFilter, up to the cache lookup.
GetGeoData_Call(t, op, ip) ==
    /\ phase = "run"
    /\ geo[t].pc = "idle"
    /\ IF ~GeoFilteringEnabled
       THEN ret' = GeoReturnDisabled(op, ip) /\ UNCHANGED geo
       ELSE IF ip \in DOMAIN GeoCache /\ now - GeoCache[ip].CachedAt < GeoCacheTTL
       THEN ret' = GeoReturn(op, ip, GeoCache[ip]) /\ UNCHANGED geo
       ELSE /\ geo' = [geo EXCEPT ![t] = [pc |-> "fetch", op |-> op, ip |-> ip]]
            /\ UNCHANGED ret
    /\ UNCHANGED <<GeoFilteringEnabled, GeoFilterMode, AllowedCountries,
                   BlockedCountries, BlockedASN, ChallengeUnknown, GeoCache,
                   now, phase>>

\* A cache that forgets the entry of ip when the fetch fails.
GeoCacheDropOnFailure(cache, ip, outcome, t) ==
    IF Failed(outcome) THEN MapDel(cache, ip)
    ELSE MapPut(cache, ip, GeoData(outcome.ASN, outcome.CountryCode, t))

\* GeoCache after the fetch for ip came back with outcome at time t.
GeoCacheAfterFetch(cache, ip, outcome, t) ==
    IF Failed(outcome) THEN cache
    ELSE MapPut(cache, ip, GeoData(outcome.ASN, outcome.CountryCode, t))

\* GetGeoData from the answer of the GET to its return.
GetGeoData_Fetch(t, outcome) ==
    /\ geo[t].pc = "fetch"
    /\ GeoCache' = GeoCacheAfterFetch(GeoCache, geo[t].ip, outcome, now)
    /\ ret' = IF Failed(outcome) THEN GeoReturnError(geo[t].op, geo[t].ip, outcome.kind)
              ELSE GeoReturn(geo[t].op, geo[t].ip,
                             GeoData(outcome.ASN, outcome.CountryCode, now))
    /\ geo' = [geo EXCEPT ![t] = NoLookup]
    /\ UNCHANGED <<GeoFilteringEnabled, GeoFilterMode, AllowedCountries,
                   BlockedCountries, BlockedASN, ChallengeUnknown, now, phase>>

\* A cleanup that also drops the entries exactly GeoCacheTTL * 2 old.
CleanupGeoCacheAtTwice ==
    /\ phase = "run"
    /\ LET kept == {i \in DOMAIN GeoCache :
                       ~(now - GeoCache[i].CachedAt >= GeoCacheTTL * 2)}
       IN  /\ GeoCache' = [ip \in kept |-> GeoCache[ip]]
           /\ ret' = [op |-> "CleanupGeoCache", removed |-> (DOMAIN GeoCache) \ kept]
    /\ UNCHANGED <<GeoFilteringEnabled, GeoFilterMode, AllowedCountries,
                   BlockedCountries, BlockedASN, ChallengeUnknown, geo,
                   now, phase>>

\* CleanupGeoCache, run hourly.
CleanupGeoCache ==
    /\ phase = "run"
    /\ LET kept == {i \in DOMAIN GeoCache :
                       ~(now - GeoCache[i].CachedAt > GeoCacheTTL * 2)}
       IN  /\ GeoCache' = [ip \in kept |-> GeoCache[ip]]
           /\ ret' = [op |-> "CleanupGeoCache", removed |-> (DOMAIN GeoCache) \ kept]
    /\ UNCHANGED <<GeoFilteringEnabled, GeoFilterMode, AllowedCountries,
                   BlockedCountries, BlockedASN, ChallengeUnknown, geo,
                   now, phase>>

\* The clock of the geo cache moves in steps of 36 hours.
TickGeo ==
    /\ phase = "run"
    /\ now + 36 * 3600 <= MaxGeoHours * 3600
    /\ now' = now + 36 * 3600
    /\ UNCHANGED <<phase, ret>>

\* The same clock in steps of GeoCacheTTL, which brings the entries to the
\* ages GeoCacheTTL and 2 x GeoCacheTTL exactly.
TickGeoTTL ==
    /\ phase = "run"
    /\ now + GeoCacheTTL <= MaxGeoHours * 3600
    /\ now' = now + GeoCacheTTL
    /\ UNCHANGED <<phase, ret>>

\* =====================================================================
\* Reputation store: close and reopen
\* =====================================================================
\* The model starts the process MaxRuns times.
MaxRuns == 2

VARIABLES
    runs,                    \* how many times the process was started
    updatedIPs,              \* the IPs UpdateReputation was called on while the
                             \* database was open
    cleanedIPs,              \* the IPs CleanupOldReputation removed
    atClose                  \* ReputationScores when CloseReputationDB closed
                             \* the database

roundVars == <<runs, updatedIPs, cleanedIPs, atClose>>

\* CloseReputationDB: bolt's Close on the open database.
CloseReputationDB ==
    /\ phase = "run"
    /\ ReputationDB' = IF ReputationDB = "open" THEN "closed" ELSE ReputationDB
    /\ ret' = [op |-> "Close"]
    /\ UNCHANGED <<ReputationScores, ReputationMutex, bucket, ReputationEnabled,
                   ReputationMinScore, ReputationPersistToDB,
                   ReputationDecayInterval, decayRunning, nextDecay, th, now, phase>>

\* The process exits after closing the database and is started again: the
\* package variables are initialised anew, the database file stays.
Restart ==
    /\ phase = "run"
    /\ ReputationDB = "closed"
    /\ phase' = "boot"
    /\ ReputationScores' = EmptyMap
    /\ ReputationMutex' = NoThread
    /\ ReputationDB' = "nil"
    /\ ReputationEnabled' = TRUE
    /\ ReputationMinScore' = DefaultMinScore
    /\ ReputationPersistToDB' = TRUE
    /\ ReputationDecayInterval' = DefaultDecayInterval
    /\ decayRunning' = FALSE
    /\ nextDecay' = 0
    /\ th' = [t \in Threads |-> Idle]
    /\ ret' = NoRet
    /\ UNCHANGED <<bucket, now>>

\* =====================================================================
\* Multi-window counter
\* =====================================================================
DefaultBurstWindow == 10
DefaultShortWindow == 60
DefaultMediumWindow == 300
DefaultLongWindow == 3600

\* The clock of the windows runs to MaxWindowTime seconds, and the model
\* records MaxRecords requests.
MaxWindowTime == 3
MaxRecords == 2

VARIABLES
    MultiWindowEnabled,
    BurstWindow,
    ShortWindow,
    MediumWindow,
    LongWindow,
    BurstWindowIps,          \* map timestamp -> (map ip -> count)
    ShortWindowIps,
    MediumWindowIps,
    LongWindowIps,
    MultiWindowMutex,        \* the goroutine holding the write lock
    windowRunning,           \* the cleanup routine was started
    win,                     \* each goroutine: its call of RecordRequest
    recorded                 \* how many calls of RecordRequest were made

winVars == <<MultiWindowEnabled, BurstWindow, ShortWindow, MediumWindow, LongWindow,
             BurstWindowIps, ShortWindowIps, MediumWindowIps, LongWindowIps,
             MultiWindowMutex, windowRunning, win, recorded>>

NoRecord == [pc |-> "idle", ip |-> "none", at |-> 0]

WindowConfig(burst, short, medium, long) ==
    [Burst |-> burst, Short |-> short, Medium |-> medium, Long |-> long]
WindowConfigs == {WindowConfig(0, 0, 0, 0), WindowConfig(1, 2, 3, 4)}

\* config.Load, the windows.
LoadWindows(cfg) ==
    /\ BurstWindow' = IF cfg.Burst > 0 THEN cfg.Burst ELSE BurstWindow
    /\ ShortWindow' = IF cfg.Short > 0 THEN cfg.Short ELSE ShortWindow
    /\ MediumWindow' = IF cfg.Medium > 0 THEN cfg.Medium ELSE MediumWindow
    /\ LongWindow' = IF cfg.Long > 0 THEN cfg.Long ELSE LongWindow
    /\ MultiWindowEnabled' = TRUE
    /\ windowRunning' = TRUE

\* A key that is the time of the request itself.
BucketOfRequest(t, window) == t

\* int(now.Unix()) / window * window
BucketOf(t, window) == (t \div window) * window

\* windowMap[ts][ip] of a map of maps: 0 when a key is absent.
CountIn(windowMap, ts, ip) ==
    IF ts \in DOMAIN windowMap /\ ip \in DOMAIN windowMap[ts]
    THEN windowMap[ts][ip] ELSE 0

\* if windowMap[ts] == nil { windowMap[ts] = make(map[string]int) };
\* windowMap[ts][ip]++
Increment(windowMap, ts, ip) ==
    LET inner == IF ts \in DOMAIN windowMap THEN windowMap[ts] ELSE EmptyMap
    IN MapPut(windowMap, ts, MapPut(inner, ip, CountIn(windowMap, ts, ip) + 1))

\* RecordRequest up to the lock: the clock is read and the four timestamps
\* are computed.
RecordRequest_Call(t, ip) ==
    /\ phase = "run"
    /\ win[t].pc = "idle"
    /\ recorded < MaxRecords
    /\ recorded' = recorded + 1
    /\ IF ~MultiWindowEnabled
       THEN /\ ret' = [op |-> "Record", ip |-> ip, at |-> now, done |-> FALSE]
            /\ UNCHANGED win
       ELSE /\ win' = [win EXCEPT ![t] = [pc |-> "lock", ip |-> ip, at |-> now]]
            /\ UNCHANGED ret
    /\ UNCHANGED <<MultiWindowEnabled, BurstWindow, ShortWindow, MediumWindow,
                   LongWindow, BurstWindowIps, ShortWindowIps, MediumWindowIps,
                   LongWindowIps, MultiWindowMutex, windowRunning, now, phase>>

\* Lock, and the burst window.
RecordRequest_Burst(t) ==
    /\ win[t].pc = "lock"
    /\ MultiWindowMutex = NoThread
    /\ MultiWindowMutex' = t
    /\ BurstWindowIps' =
          Increment(BurstWindowIps, BucketOf(win[t].at, BurstWindow), win[t].ip)
    /\ win' = [win EXCEPT ![t].pc = "short"]
    /\ UNCHANGED <<MultiWindowEnabled, BurstWindow, ShortWindow, MediumWindow,
                   LongWindow, ShortWindowIps, MediumWindowIps, LongWindowIps,
                   windowRunning, recorded, now, phase, ret>>

\* The short window.
RecordRequest_Short(t) ==
    /\ win[t].pc = "short"
    /\ ShortWindowIps' =
          Increment(ShortWindowIps, BucketOf(win[t].at, ShortWindow), win[t].ip)
    /\ win' = [win EXCEPT ![t].pc = "medium"]
    /\ UNCHANGED <<MultiWindowEnabled, BurstWindow, ShortWindow, MediumWindow,
                   LongWindow, BurstWindowIps, MediumWindowIps, LongWindowIps,
                   MultiWindowMutex, windowRunning, recorded, now, phase, ret>>

\* The medium window.
RecordRequest_Medium(t) ==
    /\ win[t].pc = "medium"
    /\ MediumWindowIps' =
          Increment(MediumWindowIps, BucketOf(win[t].at, MediumWindow), win[t].ip)
    /\ win' = [win EXCEPT ![t].pc = "long"]
    /\ UNCHANGED <<MultiWindowEnabled, BurstWindow, ShortWindow, MediumWindow,
                   LongWindow, BurstWindowIps, ShortWindowIps, LongWindowIps,
                   MultiWindowMutex, windowRunning, recorded, now, phase, ret>>

\* The long window, and the deferred Unlock.
RecordRequest_Long(t) ==
    /\ win[t].pc = "long"
    /\ LongWindowIps' =
          Increment(LongWindowIps, BucketOf(win[t].at, LongWindow), win[t].ip)
    /\ MultiWindowMutex' = NoThread
    /\ win' = [win EXCEPT ![t] = NoRecord]
    /\ ret' = [op |-> "Record", ip |-> win[t].ip, at |-> win[t].at, done |-> TRUE]
    /\ UNCHANGED <<MultiWindowEnabled, BurstWindow, ShortWindow, MediumWindow,
                   LongWindow, BurstWindowIps, ShortWindowIps, MediumWindowIps,
                   windowRunning, recorded, now, phase>>

WindowNames == {"burst", "short", "medium", "long", "day"}

\* A count that falls back on the bucket before the current one.
RequestCountWithPrevious(ip, window, t) ==
    IF ~MultiWindowEnabled THEN 0
    ELSE CASE window = "burst" ->
                 IF BucketOf(t, BurstWindow) \in DOMAIN BurstWindowIps
                 THEN CountIn(BurstWindowIps, BucketOf(t, BurstWindow), ip)
                 ELSE CountIn(BurstWindowIps, BucketOf(t, BurstWindow) - BurstWindow, ip)
           [] window = "short" -> CountIn(ShortWindowIps, BucketOf(t, ShortWindow), ip)
           [] window = "medium" -> CountIn(MediumWindowIps, BucketOf(t, MediumWindow), ip)
           [] window = "long" -> CountIn(LongWindowIps, BucketOf(t, LongWindow), ip)
           [] OTHER -> 0

\* The value GetRequestCount(ip, window) returns at time t.
RequestCountAt(ip, window, t) ==
    IF ~MultiWindowEnabled THEN 0
    ELSE CASE window = "burst" -> CountIn(BurstWindowIps, BucketOf(t, BurstWindow), ip)
           [] window = "short" -> CountIn(ShortWindowIps, BucketOf(t, ShortWindow), ip)
           [] window = "medium" -> CountIn(MediumWindowIps, BucketOf(t, MediumWindow), ip)
           [] window = "long" -> CountIn(LongWindowIps, BucketOf(t, LongWindow), ip)
           [] OTHER -> 0

\* A reader that does not wait for the writer.
WindowsReadableUnlocked == TRUE

\* RLock: no goroutine holds the write lock.
WindowsReadable == MultiWindowMutex = NoThread

GetRequestCount(ip, window) ==
    /\ phase = "run"
    /\ (MultiWindowEnabled /\ window \in {"burst", "short", "medium", "long"})
          => WindowsReadable
    /\ ret' = [op |-> "Count", ip |-> ip, window |-> window, at |-> now,
               val |-> RequestCountAt(ip, window, now)]
    /\ UNCHANGED <<winVars, now, phase>>

\* CleanupOldWindows, every 30 seconds: in each window the buckets older than
\* two windows before the current one are deleted.
KeepFrom(windowMap, cutoff) ==
    [ts \in {k \in DOMAIN windowMap : ~(k < cutoff)} |-> windowMap[ts]]

CleanupOldWindows ==
    /\ phase = "run"
    /\ windowRunning
    /\ MultiWindowMutex = NoThread
    /\ BurstWindowIps' =
          KeepFrom(BurstWindowIps, BucketOf(now, BurstWindow) - BurstWindow * 2)
    /\ ShortWindowIps' =
          KeepFrom(ShortWindowIps, BucketOf(now, ShortWindow) - ShortWindow * 2)
    /\ MediumWindowIps' =
          KeepFrom(MediumWindowIps, BucketOf(now, MediumWindow) - MediumWindow * 2)
    /\ LongWindowIps' =
          KeepFrom(LongWindowIps, BucketOf(now, LongWindow) - LongWindow * 2)
    /\ UNCHANGED <<MultiWindowEnabled, BurstWindow, ShortWindow, MediumWindow,
                   LongWindow, MultiWindowMutex, windowRunning, win, recorded,
                   now, phase, ret>>

\* The clock of the windows.
TickWindow ==
    /\ phase = "run"
    /\ now < MaxWindowTime
    /\ now' = now + 1
    /\ UNCHANGED <<phase, ret>>

\* The same clock running to MaxNestedTime, past a boundary of the third of
\* four window sizes that double.
MaxNestedTime == 4
TickNested ==
    /\ phase = "run"
    /\ now < MaxNestedTime
    /\ now' = now + 1
    /\ UNCHANGED <<phase, ret>>

\* =====================================================================
\* Locks: domain telemetry, metrics, multipliers
\*
\* The order in which the background tasks, the request path and a writer of
\* domain telemetry take firewall.Mutex (the lock of domains.DomainsData),
\* MetricsData.mutex and AdaptiveMutex, one step for each Lock, RLock, Unlock
\* and RUnlock of the code.
\* =====================================================================

VARIABLES MetricsEnabled, Mutex, MetricsMutex, AdaptiveMutex, task,
          PerIPMetrics, observed

lockVars == <<MetricsEnabled, Mutex, MetricsMutex, AdaptiveMutex, task,
              PerIPMetrics, observed>>

\* The goroutines: the 10 s metrics update routine, the hourly metrics cleanup
\* routine, the multiplier routine, a request handler and a writer of domain
\* telemetry outside the package.
Tasks == {"update", "cleanup", "adaptive", "hot", "writer"}
NoTask == "none"
Readers == Tasks \ {"writer"}

AtRest == [pc |-> "idle", todo |-> {}]

\* The metrics part of config.Load.
LoadMetrics(enabled) == MetricsEnabled' = enabled

\* sync.RWMutex: a reader enters unless a writer holds the lock or waits for it.
RLock(t) ==
    /\ Mutex.writer = "none"
    /\ Mutex' = [Mutex EXCEPT !.readers[t] = @ + 1]

RUnlock(t) == Mutex' = [Mutex EXCEPT !.readers[t] = @ - 1]

Goto(t, pc) == task' = [task EXCEPT ![t].pc = pc]

At(t, pc) == task[t].pc = pc

\* UpdateDomainMetrics, called for each domain by the update routine.
UpdateDomainMetrics(t) ==
    \/ /\ At(t, "domain_rlock")
       /\ RLock(t)
       /\ Goto(t, "domain_runlock")
       /\ UNCHANGED <<MetricsMutex, AdaptiveMutex>>
    \/ /\ At(t, "domain_runlock")
       /\ RUnlock(t)
       /\ Goto(t, "domain_lock")
       /\ UNCHANGED <<MetricsMutex, AdaptiveMutex>>
    \/ /\ At(t, "domain_lock")
       /\ MetricsMutex = NoTask
       /\ MetricsMutex' = t
       /\ Goto(t, "domain_unlock")
       /\ UNCHANGED <<Mutex, AdaptiveMutex>>
    \/ /\ At(t, "domain_unlock")
       /\ MetricsMutex' = NoTask
       /\ Goto(t, "loop")
       /\ UNCHANGED <<Mutex, AdaptiveMutex>>

\* UpdateGlobalMetrics, the last call of both metrics routines.
UpdateGlobalMetrics(t) ==
    \/ /\ At(t, "global_lock")
       /\ MetricsMutex = NoTask
       /\ MetricsMutex' = t
       /\ Goto(t, "global_rlock")
       /\ UNCHANGED <<Mutex, AdaptiveMutex>>
    \/ /\ At(t, "global_rlock")
       /\ RLock(t)
       /\ Goto(t, "global_runlock")
       /\ UNCHANGED <<MetricsMutex, AdaptiveMutex>>
    \/ /\ At(t, "global_runlock")
       /\ RUnlock(t)
       /\ Goto(t, "global_unlock")
       /\ UNCHANGED <<MetricsMutex, AdaptiveMutex>>
    \/ /\ At(t, "global_unlock")
       /\ MetricsMutex' = NoTask
       /\ Goto(t, "idle")
       /\ UNCHANGED <<Mutex, AdaptiveMutex>>

\* The loop of StartMetricsUpdateRoutine, one turn for each tick.
MetricsUpdateRoutine ==
    LET t == "update" IN
    \/ /\ At(t, "idle")
       /\ MetricsEnabled
       /\ Goto(t, "rlock")
       /\ UNCHANGED <<Mutex, MetricsMutex, AdaptiveMutex>>
    \/ /\ At(t, "rlock")
       /\ RLock(t)
       /\ task' = [task EXCEPT ![t] = [pc |-> "loop", todo |-> DOMAIN DomainsData]]
       /\ UNCHANGED <<MetricsMutex, AdaptiveMutex>>
    \/ /\ At(t, "loop")
       /\ \E d \in task[t].todo :
             task' = [task EXCEPT ![t] = [pc |-> "domain_rlock", todo |-> @.todo \ {d}]]
       /\ UNCHANGED <<Mutex, MetricsMutex, AdaptiveMutex>>
    \/ UpdateDomainMetrics(t)
    \/ /\ At(t, "loop")
       /\ task[t].todo = {}
       /\ RUnlock(t)
       /\ Goto(t, "global_lock")
       /\ UNCHANGED <<MetricsMutex, AdaptiveMutex>>
    \/ UpdateGlobalMetrics(t)

\* The loop of StartMetricsCleanupRoutine: CleanupOldIPMetrics, then
\* UpdateGlobalMetrics.
MetricsCleanupRoutine ==
    LET t == "cleanup" IN
    \/ /\ At(t, "idle")
       /\ MetricsEnabled
       /\ Goto(t, "cleanup_lock")
       /\ UNCHANGED <<Mutex, MetricsMutex, AdaptiveMutex>>
    \/ /\ At(t, "cleanup_lock")
       /\ MetricsMutex = NoTask
       /\ MetricsMutex' = t
       /\ Goto(t, "cleanup_unlock")
       /\ UNCHANGED <<Mutex, AdaptiveMutex>>
    \/ /\ At(t, "cleanup_unlock")
       /\ MetricsMutex' = NoTask
       /\ Goto(t, "global_lock")
       /\ UNCHANGED <<Mutex, AdaptiveMutex>>
    \/ UpdateGlobalMetrics(t)

\* The loop of StartAdaptiveRateLimitRoutine, lock by lock:
\* UpdateAdaptiveMultiplier takes AdaptiveMutex for each domain.
AdaptiveRoutineLocks ==
    LET t == "adaptive" IN
    \/ /\ At(t, "idle")
       /\ adaptiveRunning
       /\ Goto(t, "rlock")
       /\ UNCHANGED <<Mutex, MetricsMutex, AdaptiveMutex>>
    \/ /\ At(t, "rlock")
       /\ RLock(t)
       /\ task' = [task EXCEPT ![t] = [pc |-> "loop", todo |-> DOMAIN DomainsData]]
       /\ UNCHANGED <<MetricsMutex, AdaptiveMutex>>
    \/ /\ At(t, "loop")
       /\ \E d \in task[t].todo :
             task' = [task EXCEPT ![t] = [pc |-> "adaptive_lock", todo |-> @.todo \ {d}]]
       /\ UNCHANGED <<Mutex, MetricsMutex, AdaptiveMutex>>
    \/ /\ At(t, "adaptive_lock")
       /\ AdaptiveMutex = NoTask
       /\ AdaptiveMutex' = t
       /\ Goto(t, "adaptive_unlock")
       /\ UNCHANGED <<Mutex, MetricsMutex>>
    \/ /\ At(t, "adaptive_unlock")
       /\ AdaptiveMutex' = NoTask
       /\ Goto(t, "loop")
       /\ UNCHANGED <<Mutex, MetricsMutex>>
    \/ /\ At(t, "loop")
       /\ task[t].todo = {}
       /\ RUnlock(t)
       /\ Goto(t, "idle")
       /\ UNCHANGED <<MetricsMutex, AdaptiveMutex>>

\* A request handler: the difficulty of a domain (a read of domain telemetry),
\* the multiplier of a domain (a read under AdaptiveMutex) and the per-IP
\* metrics (a write under MetricsData.mutex), one after the other.
HotPath ==
    LET t == "hot" IN
    \/ /\ At(t, "idle")
       /\ phase = "run"
       /\ Goto(t, "rlock")
       /\ UNCHANGED <<Mutex, MetricsMutex, AdaptiveMutex>>
    \/ /\ At(t, "rlock")
       /\ RLock(t)
       /\ Goto(t, "runlock")
       /\ UNCHANGED <<MetricsMutex, AdaptiveMutex>>
    \/ /\ At(t, "runlock")
       /\ RUnlock(t)
       /\ Goto(t, "adaptive_lock")
       /\ UNCHANGED <<MetricsMutex, AdaptiveMutex>>
    \/ /\ At(t, "adaptive_lock")
       /\ AdaptiveMutex = NoTask
       /\ AdaptiveMutex' = t
       /\ Goto(t, "adaptive_unlock")
       /\ UNCHANGED <<Mutex, MetricsMutex>>
    \/ /\ At(t, "adaptive_unlock")
       /\ AdaptiveMutex' = NoTask
       /\ Goto(t, IF MetricsEnabled THEN "metrics_lock" ELSE "idle")
       /\ UNCHANGED <<Mutex, MetricsMutex>>
    \/ /\ At(t, "metrics_lock")
       /\ MetricsMutex = NoTask
       /\ MetricsMutex' = t
       /\ Goto(t, "metrics_unlock")
       /\ UNCHANGED <<Mutex, AdaptiveMutex>>
    \/ /\ At(t, "metrics_unlock")
       /\ MetricsMutex' = NoTask
       /\ Goto(t, "idle")
       /\ UNCHANGED <<Mutex, AdaptiveMutex>>

\* A writer of domain telemetry: Lock announces the writer, which stops new
\* readers, and returns when the last reader has left.
TelemetryWriter ==
    LET t == "writer" IN
    \/ /\ At(t, "idle")
       /\ phase = "run"
       /\ Mutex.writer = "none"
       /\ Mutex' = [Mutex EXCEPT !.writer = "waiting"]
       /\ Goto(t, "lock")
       /\ UNCHANGED <<MetricsMutex, AdaptiveMutex>>
    \/ /\ At(t, "lock")
       /\ \A r \in Readers : Mutex.readers[r] = 0
       /\ Mutex' = [Mutex EXCEPT !.writer = "held"]
       /\ Goto(t, "unlock")
       /\ UNCHANGED <<MetricsMutex, AdaptiveMutex>>
    \/ /\ At(t, "unlock")
       /\ Mutex' = [Mutex EXCEPT !.writer = "none"]
       /\ Goto(t, "idle")
       /\ UNCHANGED <<MetricsMutex, AdaptiveMutex>>

\* The component locks a task holds.
HoldsComponentLock(t) == MetricsMutex = t \/ AdaptiveMutex = t

\* The task is about to take, or holds, the telemetry lock for reading.
WantsTelemetry(t) ==
    task[t].pc \in {"rlock", "domain_rlock", "global_rlock"}

\* The tasks a task waits for: nobody when its next step can be taken.
WaitsFor(t) ==
    IF t = "writer"
    THEN IF At(t, "lock") THEN {r \in Readers : Mutex.readers[r] > 0} ELSE {}
    ELSE IF WantsTelemetry(t)
         THEN IF Mutex.writer = "none" THEN {} ELSE {"writer"}
    ELSE IF task[t].pc \in {"domain_lock", "global_lock", "cleanup_lock", "metrics_lock"}
         THEN {MetricsMutex} \ {NoTask}
    ELSE IF At(t, "adaptive_lock")
         THEN {AdaptiveMutex} \ {NoTask}
    ELSE {}

\* A set of tasks each of which waits for a task of the set: none of them
\* ever runs again.
Deadlocked ==
    \E S \in SUBSET Tasks :
        /\ S # {}
        /\ \A t \in S : WaitsFor(t) \cap S # {}

\* =====================================================================
\* Per-IP metrics (core/firewall/metrics.go)
\*
\* Every recorder runs whole under MetricsData.mutex, so each is one step.
\* observed is a history variable: the time of the last call of any recorder
\* that went past the MetricsEnabled test, per IP.
\* =====================================================================

HalfDay == 12 * 3600
MaxMetricsHalfDays == 4
MaxIPRequests == 2
MaxIPEvents == 1
MetricScores == {20, 80}

\* &IPMetrics{IP: ip, LastSeen: time.Now()}
NewIPMetrics(t) ==
    [TotalRequests |-> 0, BypassedRequests |-> 0, BlockedRequests |-> 0,
     ChallengeFailures |-> 0, RateLimitHits |-> 0, ReputationScore |-> 0,
     LastSeen |-> t]

\* metrics, exists := MetricsData.PerIPMetrics[ip]; if !exists { ... }
IPMetricsOf(ip, t) ==
    IF ip \in DOMAIN PerIPMetrics THEN PerIPMetrics[ip] ELSE NewIPMetrics(t)

StoreIPMetrics(ip, m) ==
    /\ PerIPMetrics' = (ip :> m) @@ PerIPMetrics
    /\ observed' = (ip :> now) @@ observed

RecordIPRequest(ip, bypassed, blocked) ==
    /\ phase = "run"
    /\ MetricsMutex = NoTask
    /\ ret' = [op |-> "RecordIPRequest", ip |-> ip, done |-> MetricsEnabled]
    /\ IF ~MetricsEnabled
       THEN UNCHANGED <<PerIPMetrics, observed>>
       ELSE LET m == IPMetricsOf(ip, now)
            IN  StoreIPMetrics(ip,
                    [m EXCEPT !.TotalRequests = @ + 1,
                              !.BypassedRequests = IF bypassed THEN @ + 1 ELSE @,
                              !.BlockedRequests = IF blocked THEN @ + 1 ELSE @,
                              !.LastSeen = now])
    /\ UNCHANGED <<MetricsEnabled, Mutex, MetricsMutex, AdaptiveMutex, task,
                   now, phase>>

RecordIPChallengeFailure(ip) ==
    /\ phase = "run"
    /\ MetricsMutex = NoTask
    /\ ret' = [op |-> "RecordIPChallengeFailure", ip |-> ip, done |-> MetricsEnabled]
    /\ IF ~MetricsEnabled
       THEN UNCHANGED <<PerIPMetrics, observed>>
       ELSE StoreIPMetrics(ip, [IPMetricsOf(ip, now) EXCEPT !.ChallengeFailures = @ + 1])
    /\ UNCHANGED <<MetricsEnabled, Mutex, MetricsMutex, AdaptiveMutex, task,
                   now, phase>>

RecordIPRateLimitHit(ip) ==
    /\ phase = "run"
    /\ MetricsMutex = NoTask
    /\ ret' = [op |-> "RecordIPRateLimitHit", ip |-> ip, done |-> MetricsEnabled]
    /\ IF ~MetricsEnabled
       THEN UNCHANGED <<PerIPMetrics, observed>>
       ELSE StoreIPMetrics(ip, [IPMetricsOf(ip, now) EXCEPT !.RateLimitHits = @ + 1])
    /\ UNCHANGED <<MetricsEnabled, Mutex, MetricsMutex, AdaptiveMutex, task,
                   now, phase>>

UpdateIPReputationScore(ip, score) ==
    /\ phase = "run"
    /\ MetricsMutex = NoTask
    /\ ret' = [op |-> "UpdateIPReputationScore", ip |-> ip, done |-> MetricsEnabled]
    /\ IF ~MetricsEnabled
       THEN UNCHANGED <<PerIPMetrics, observed>>
       ELSE StoreIPMetrics(ip, [IPMetricsOf(ip, now) EXCEPT !.ReputationScore = score])
    /\ UNCHANGED <<MetricsEnabled, Mutex, MetricsMutex, AdaptiveMutex, task,
                   now, phase>>

\* cutoff := time.Now().Add(-24 * time.Hour); delete if LastSeen.Before(cutoff)
CleanupOldIPMetrics ==
    /\ phase = "run"
    /\ MetricsMutex = NoTask
    /\ LET cutoff == now - 24 * 3600
           kept == IF MetricsEnabled
                   THEN {ip \in DOMAIN PerIPMetrics :
                            ~(PerIPMetrics[ip].LastSeen < cutoff)}
                   ELSE DOMAIN PerIPMetrics
       IN  /\ PerIPMetrics' = [ip \in kept |-> PerIPMetrics[ip]]
           /\ ret' = [op |-> "CleanupOldIPMetrics",
                      removed |-> (DOMAIN PerIPMetrics) \ kept]
    /\ UNCHANGED <<MetricsEnabled, Mutex, MetricsMutex, AdaptiveMutex, task,
                   observed, now, phase>>

TickMetrics ==
    /\ phase = "run"
    /\ now + HalfDay <= MaxMetricsHalfDays * HalfDay
    /\ now' = now + HalfDay
    /\ UNCHANGED <<lockVars, phase, ret>>

\* =====================================================================
\* The system
\* =====================================================================
vars == <<repVars, connVars, diffVars, adaptVars, geoVars, roundVars, winVars,
         lockVars, sysVars>>

\* config.Load, from the decoded config.json to the running proxy.
Load(cfg) ==
    /\ phase = "boot"
    /\ phase' = "run"
    /\ LoadConnectionLimits(cfg.conn)
    /\ LoadReputation(cfg.rep)
    /\ LoadChallenge(cfg.chal)
    /\ LoadAdaptive(cfg.adapt)
    /\ LoadGeo(cfg.geo)
    /\ LoadWindows(cfg.win)
    /\ LoadMetrics(cfg.metrics)
    /\ UNCHANGED <<ReputationMutex, bucket, th, ActiveConnections, ConnectionRate,
                   HalfOpenConnections, conn, AdaptiveMultipliers, IPWhitelist,
                   series, learned, GeoCache, geo, roundVars, BurstWindowIps,
                   ShortWindowIps, MediumWindowIps, LongWindowIps, MultiWindowMutex,
                   win, recorded, Mutex, MetricsMutex, AdaptiveMutex, task,
                   PerIPMetrics, observed,
                   now, ret>>

DefaultReputationConfig == ReputationConfig(TRUE, 0, TRUE, 0)
DefaultConnectionConfig == ConnectionConfig(0, 0, 0, FALSE)
DefaultChallengeConfig == ChallengeConfig(FALSE, 0, 0, 0)
DefaultAdaptiveConfig == AdaptiveConfig(FALSE, Zero, Zero, Zero, FALSE)
DefaultGeoConfig == GeoConfig(FALSE, "blacklist", << >>, << >>, << >>, FALSE)
DefaultWindowConfig == WindowConfig(0, 0, 0, 0)
DefaultConfig ==
    [rep |-> DefaultReputationConfig, conn |-> DefaultConnectionConfig,
     chal |-> DefaultChallengeConfig, adapt |-> DefaultAdaptiveConfig,
     geo |-> DefaultGeoConfig, win |-> DefaultWindowConfig, metrics |-> FALSE]

\* The package variables as the program starts, the database file holding b.
InitWith(b) ==
    /\ ReputationScores = EmptyMap
    /\ ReputationMutex = NoThread
    /\ ReputationDB = "nil"
    /\ bucket = b
    /\ ReputationEnabled = TRUE
    /\ ReputationMinScore = DefaultMinScore
    /\ ReputationPersistToDB = TRUE
    /\ ReputationDecayInterval = DefaultDecayInterval
    /\ decayRunning = FALSE
    /\ nextDecay = 0
    /\ th = [t \in Threads |-> Idle]
    /\ ActiveConnections = EmptyMap
    /\ ConnectionRate = EmptyMap
    /\ HalfOpenConnections = EmptyMap
    /\ MaxConcurrentConnPerIP = DefaultMaxConcurrentConnPerIP
    /\ MaxConnRatePerIP = DefaultMaxConnRatePerIP
    /\ MaxHalfOpenPerIP = DefaultMaxHalfOpenPerIP
    /\ EnableSynFloodProtection = TRUE
    /\ conn = [t \in Threads |-> NoConn]
    /\ DynamicDifficultyEnabled = TRUE
    /\ MinDifficulty = DefaultMinDifficulty
    /\ MaxDifficulty = DefaultMaxDifficulty
    /\ DomainsData = EmptyMap
    /\ AdaptiveRateLimitEnabled = TRUE
    /\ AdaptiveBaseMultiplier = DefaultAdaptiveBaseMultiplier
    /\ AdaptiveAttackMultiplier = DefaultAdaptiveAttackMultiplier
    /\ AdaptiveDecayRate = DefaultAdaptiveDecayRate
    /\ AdaptiveLearningEnabled = TRUE
    /\ AdaptiveMultipliers = EmptyMap
    /\ IPWhitelist = EmptyMap
    /\ adaptiveRunning = FALSE
    /\ series = [ip \in IPs |-> 0]
    /\ fused = FALSE
    /\ learned = [ip \in IPs |-> NoOutcomes]
    /\ GeoFilteringEnabled = FALSE
    /\ GeoFilterMode = "blacklist"
    /\ AllowedCountries = << >>
    /\ BlockedCountries = << >>
    /\ BlockedASN = << >>
    /\ ChallengeUnknown = FALSE
    /\ GeoCache = EmptyMap
    /\ geo = [t \in Threads |-> NoLookup]
    /\ runs = 1
    /\ updatedIPs = {}
    /\ cleanedIPs = {}
    /\ atClose = EmptyMap
    /\ MultiWindowEnabled = TRUE
    /\ BurstWindow = DefaultBurstWindow
    /\ ShortWindow = DefaultShortWindow
    /\ MediumWindow = DefaultMediumWindow
    /\ LongWindow = DefaultLongWindow
    /\ BurstWindowIps = EmptyMap
    /\ ShortWindowIps = EmptyMap
    /\ MediumWindowIps = EmptyMap
    /\ LongWindowIps = EmptyMap
    /\ MultiWindowMutex = NoThread
    /\ windowRunning = FALSE
    /\ win = [t \in Threads |-> NoRecord]
    /\ recorded = 0
    /\ MetricsEnabled = FALSE
    /\ Mutex = [readers |-> [r \in Readers |-> 0], writer |-> "none"]
    /\ MetricsMutex = NoTask
    /\ AdaptiveMutex = NoTask
    /\ task = [t \in Tasks |-> AtRest]
    /\ PerIPMetrics = EmptyMap
    /\ observed = EmptyMap
    /\ now = 0
    /\ phase = "boot"
    /\ ret = NoRet

\* ------------------------------------------------------- the reputation store
\* The calls of UpdateReputation: a canonical delta with its reason, and the
\* largest swings.
UpdateInputs == {<<ScoreRateLimitHit, "rate_limit_hit">>,
                 <<-100, "challenge_failure">>, <<100, "other">>}
StoredIPs == {"a"}

InitRep == \E b \in StoredBuckets(StoredIPs, StoredScores) : InitWith(b)

NextRep ==
    \/ \E cfg \in ReputationConfigs :
             Load([DefaultConfig EXCEPT !.rep = cfg])
    \/ /\ \E t \in Threads, ip \in IPs : GetReputation_Call(t, ip)
       /\ UNCHANGED <<lockVars, connVars, diffVars, adaptVars, geoVars, roundVars, winVars>>
    \/ /\ \E t \in Threads : GetReputation_RLock(t)
       /\ UNCHANGED <<lockVars, connVars, diffVars, adaptVars, geoVars, roundVars, winVars>>
    \/ /\ \E t \in Threads : GetReputation_Lock(t)
       /\ UNCHANGED <<lockVars, connVars, diffVars, adaptVars, geoVars, roundVars, winVars>>
    \/ /\ \E t \in Threads : GetReputation_Save(t)
       /\ UNCHANGED <<lockVars, connVars, diffVars, adaptVars, geoVars, roundVars, winVars>>
    \/ /\ \E t \in Threads, ip \in IPs, in \in UpdateInputs :
             UpdateReputation_Call(t, ip, in[1], in[2])
       /\ UNCHANGED <<lockVars, connVars, diffVars, adaptVars, geoVars, roundVars, winVars>>
    \/ /\ \E t \in Threads, ip \in IPs : GetReputationScore(t, ip)
       /\ UNCHANGED <<lockVars, connVars, diffVars, adaptVars, geoVars, roundVars, winVars>>
    \/ /\ \E t \in Threads, ip \in IPs : IsIPBlocked(t, ip)
       /\ UNCHANGED <<lockVars, connVars, diffVars, adaptVars, geoVars, roundVars, winVars>>
    \/ /\ ReputationDecayRoutine
       /\ UNCHANGED <<lockVars, connVars, diffVars, adaptVars, geoVars, roundVars, winVars>>
    \/ /\ \E d \in CleanupDays : CleanupOldReputation(d)
       /\ UNCHANGED <<lockVars, connVars, diffVars, adaptVars, geoVars, roundVars, winVars>>
    \/ /\ Tick /\ UNCHANGED repVars
       /\ UNCHANGED <<lockVars, connVars, diffVars, adaptVars, geoVars, roundVars, winVars>>

SpecRep == InitRep /\ [][NextRep]_vars

\* The Go scheduler runs every goroutine that can take a step.
GoroutineStep(t) ==
    /\ GetReputation_RLock(t) \/ GetReputation_Lock(t) \/ GetReputation_Save(t)
    /\ UNCHANGED <<lockVars, connVars, diffVars, adaptVars, geoVars, roundVars, winVars>>

FairSpecRep == SpecRep /\ \A t \in Threads : WF_vars(GoroutineStep(t))

\* ------------------------------------------------------ the connection limiter
InitConn == InitWith(EmptyMap)

NextConn ==
    \/ \E cfg \in ConnectionConfigs :
          Load([DefaultConfig EXCEPT !.conn = cfg])
    \/ /\ \E ip \in IPs : CheckConnectionLimit(ip)
       /\ UNCHANGED <<lockVars, conn, repVars, diffVars, adaptVars, geoVars, roundVars, winVars>>
    \/ /\ \E ip \in IPs : IncrementConnection(ip)
       /\ UNCHANGED <<lockVars, conn, repVars, diffVars, adaptVars, geoVars, roundVars, winVars>>
    \/ /\ \E ip \in IPs : DecrementConnection(ip)
       /\ UNCHANGED <<lockVars, conn, repVars, diffVars, adaptVars, geoVars, roundVars, winVars>>
    \/ /\ \E ip \in IPs : IncrementHalfOpen(ip)
       /\ UNCHANGED <<lockVars, conn, repVars, diffVars, adaptVars, geoVars, roundVars, winVars>>
    \/ /\ \E ip \in IPs : DecrementHalfOpen(ip)
       /\ UNCHANGED <<lockVars, conn, repVars, diffVars, adaptVars, geoVars, roundVars, winVars>>
    \/ /\ \E ip \in IPs : GetConnectionCount(ip)
       /\ UNCHANGED <<lockVars, conn, repVars, diffVars, adaptVars, geoVars, roundVars, winVars>>
    \/ /\ CleanupOldEntries
       /\ UNCHANGED <<lockVars, conn, repVars, diffVars, adaptVars, geoVars, roundVars, winVars>>
    \/ /\ Tick
       /\ UNCHANGED <<lockVars, connVars, repVars, diffVars, adaptVars, geoVars, roundVars, winVars>>

SpecConn == InitConn /\ [][NextConn]_vars

\* Concurrent callers that each follow check, increment, close.
NextAccept ==
    \/ \E cfg \in ConnectionConfigs :
          Load([DefaultConfig EXCEPT !.conn = cfg])
    \/ /\ \E t \in Threads, ip \in IPs : Accept_Check(t, ip)
       /\ UNCHANGED <<lockVars, repVars, diffVars, adaptVars, geoVars, roundVars, winVars>>
    \/ /\ \E t \in Threads : Accept_Increment(t)
       /\ UNCHANGED <<lockVars, repVars, diffVars, adaptVars, geoVars, roundVars, winVars>>
    \/ /\ \E t \in Threads : Accept_Close(t)
       /\ UNCHANGED <<lockVars, repVars, diffVars, adaptVars, geoVars, roundVars, winVars>>
    \/ /\ \E ip \in IPs : IncrementHalfOpen(ip)
       /\ UNCHANGED <<lockVars, conn, repVars, diffVars, adaptVars, geoVars, roundVars, winVars>>
    \/ /\ \E ip \in IPs : DecrementHalfOpen(ip)
       /\ UNCHANGED <<lockVars, conn, repVars, diffVars, adaptVars, geoVars, roundVars, winVars>>
    \/ /\ CleanupOldEntries
       /\ UNCHANGED <<lockVars, conn, repVars, diffVars, adaptVars, geoVars, roundVars, winVars>>
    \/ /\ Tick
       /\ UNCHANGED <<lockVars, connVars, repVars, diffVars, adaptVars, geoVars, roundVars, winVars>>

SpecAccept == InitConn /\ [][NextAccept]_vars

\* ----------------------------------------------------- the difficulty controller
\* Stored scores on both sides of every threshold of the reputation adjustment.
DifficultyStoredScores == {25, 29, 30, 49, 69, 70, 89, 90}

InitDiff == \E b \in StoredBuckets(StoredIPs, DifficultyStoredScores) : InitWith(b)

NextDiff ==
    \/ \E cfg \in ChallengeConfigs :
             Load([DefaultConfig EXCEPT !.chal = cfg])
    \/ /\ \E ip \in IPs, d \in DomainNames : GetEffectiveDifficulty(ip, d)
       /\ UNCHANGED <<lockVars, connVars, adaptVars, geoVars, roundVars, winVars>>
    \/ /\ \E d \in DomainNames, stage \in Stages, raw \in BOOLEAN, bypass \in BOOLEAN :
             SetDomainTelemetry(d, stage, raw, bypass)
       /\ UNCHANGED <<lockVars, connVars, adaptVars, geoVars, roundVars, winVars>>

SpecDiff == InitDiff /\ [][NextDiff]_vars

\* ----------------------------------------------------------- the trust list
InitTrust == InitWith(EmptyMap)

RequestCountOf(ip) ==
    IF ip \in DOMAIN IPWhitelist THEN IPWhitelist[ip].RequestCount ELSE 0

\* Configurations with learning on or off.
TrustConfigs ==
    {AdaptiveConfig(TRUE, Zero, Zero, Zero, TRUE),
     AdaptiveConfig(TRUE, Zero, Zero, Zero, FALSE)}

RECURSIVE SumRequestCounts(_)
SumRequestCounts(ips) ==
    IF ips = {} THEN 0
    ELSE LET ip == CHOOSE x \in ips : TRUE
         IN RequestCountOf(ip) + SumRequestCounts(ips \ {ip})

NextTrust ==
    \/ \E cfg \in TrustConfigs : Load([DefaultConfig EXCEPT !.adapt = cfg])
    \/ /\ \E ip \in IPs, success \in BOOLEAN :
             /\ SumRequestCounts(IPs) < MaxRequestCount
             /\ UpdateWhitelistLearning(ip, success)
       /\ UNCHANGED <<lockVars, series, repVars, connVars, diffVars, geoVars, roundVars, winVars>>
    \/ /\ \E ip \in IPs : CheckWhitelist(ip)
       /\ UNCHANGED <<lockVars, repVars, connVars, diffVars, geoVars, roundVars, winVars>>
    \/ /\ AdaptiveRoutineTick
       /\ UNCHANGED <<lockVars, repVars, connVars, diffVars, geoVars, roundVars, winVars>>
    \/ /\ TickDays
       /\ UNCHANGED <<lockVars, adaptVars, repVars, connVars, diffVars, geoVars, roundVars, winVars>>

SpecTrust == InitTrust /\ [][NextTrust]_vars

\* Clients that each report the series of outcomes, within one day.
NextSeries ==
    \/ \E cfg \in TrustConfigs : Load([DefaultConfig EXCEPT !.adapt = cfg])
    \/ /\ \E ip \in IPs, success \in BOOLEAN : Series_Outcome(ip, success)
       /\ UNCHANGED <<lockVars, repVars, connVars, diffVars, geoVars, roundVars, winVars>>
    \/ /\ \E ip \in IPs : CheckWhitelist(ip)
       /\ UNCHANGED <<lockVars, repVars, connVars, diffVars, geoVars, roundVars, winVars>>

SpecSeries == InitTrust /\ [][NextSeries]_vars

\* ------------------------------------------------------ the adaptive multiplier
NextAdaptive ==
    \/ \E cfg \in AdaptiveConfigs :
          Load([DefaultConfig EXCEPT !.adapt = cfg])
    \/ /\ \E d \in DOMAIN DomainsData, raw \in BOOLEAN, bypass \in BOOLEAN :
             SetDomainTelemetry(d, DomainsData[d].Stage, raw, bypass)
       /\ UNCHANGED <<lockVars, adaptVars, connVars, geoVars, roundVars, winVars>>
    \/ /\ AdaptiveRoutineTick
       /\ UNCHANGED <<lockVars, repVars, connVars, diffVars, geoVars, roundVars, winVars>>
    \/ /\ \E d \in DomainNames : GetAdaptiveMultiplier(d)
       /\ UNCHANGED <<lockVars, repVars, connVars, diffVars, geoVars, roundVars, winVars>>
    \/ /\ \E baseLimit \in BaseLimits, d \in DomainNames :
             GetAdaptiveRateLimit(baseLimit, d)
       /\ UNCHANGED <<lockVars, repVars, connVars, diffVars, geoVars, roundVars, winVars>>

SpecAdaptive == InitTrust /\ [][NextAdaptive]_vars


\* --------------------------------------------------------- the geo/ASN resolver
NextGeo ==
    \/ \E cfg \in GeoConfigs : Load([DefaultConfig EXCEPT !.geo = cfg])
    \/ /\ \E t \in Threads, op \in GeoOps, ip \in IPs : GetGeoData_Call(t, op, ip)
       /\ UNCHANGED <<lockVars, repVars, connVars, diffVars, adaptVars, roundVars, winVars>>
    \/ /\ \E t \in Threads, outcome \in FetchOutcomes : GetGeoData_Fetch(t, outcome)
       /\ UNCHANGED <<lockVars, repVars, connVars, diffVars, adaptVars, roundVars, winVars>>
    \/ /\ CleanupGeoCache
       /\ UNCHANGED <<lockVars, repVars, connVars, diffVars, adaptVars, roundVars, winVars>>
    \/ /\ TickGeo
       /\ UNCHANGED <<lockVars, geoVars, repVars, connVars, diffVars, adaptVars, roundVars, winVars>>

SpecGeo == InitTrust /\ [][NextGeo]_vars


\* ----------------------------------------- the reputation store, closed and reopened
\* Persistence enabled, a decay interval of one second.
RoundConfigs == {ReputationConfig(TRUE, 0, TRUE, 1)}
RoundStoredScores == {20}

InitRound == \E b \in StoredBuckets(StoredIPs, RoundStoredScores) : InitWith(b)

\* CloseReputationDB is the last call of a run, and the model follows the last
\* run of the process up to its Load.
NextRound ==
    \/ \E cfg \in RoundConfigs : Load([DefaultConfig EXCEPT !.rep = cfg])
    \/ /\ runs < MaxRuns /\ ReputationDB # "closed"
       /\ \E t \in Threads, ip \in IPs : GetReputation_Call(t, ip)
       /\ UNCHANGED roundVars
       /\ UNCHANGED <<lockVars, connVars, diffVars, adaptVars, geoVars, winVars>>
    \/ /\ runs < MaxRuns /\ ReputationDB # "closed"
       /\ \E t \in Threads : GetReputation_RLock(t)
       /\ UNCHANGED roundVars
       /\ UNCHANGED <<lockVars, connVars, diffVars, adaptVars, geoVars, winVars>>
    \/ /\ runs < MaxRuns /\ ReputationDB # "closed"
       /\ \E t \in Threads : GetReputation_Lock(t)
       /\ UNCHANGED roundVars
       /\ UNCHANGED <<lockVars, connVars, diffVars, adaptVars, geoVars, winVars>>
    \/ /\ runs < MaxRuns /\ ReputationDB # "closed"
       /\ \E t \in Threads : GetReputation_Save(t)
       /\ UNCHANGED roundVars
       /\ UNCHANGED <<lockVars, connVars, diffVars, adaptVars, geoVars, winVars>>
    \/ /\ runs < MaxRuns /\ ReputationDB # "closed"
       /\ \E t \in Threads, ip \in IPs :
             /\ UpdateReputation_Call(t, ip, ScoreRateLimitHit, "rate_limit_hit")
             /\ updatedIPs' = IF ReputationEnabled /\ ReputationDB = "open"
                              THEN updatedIPs \cup {ip} ELSE updatedIPs
       /\ UNCHANGED <<runs, cleanedIPs, atClose>>
       /\ UNCHANGED <<lockVars, connVars, diffVars, adaptVars, geoVars, winVars>>
    \/ /\ runs < MaxRuns /\ ReputationDB # "closed"
       /\ ReputationDecayRoutine
       /\ UNCHANGED roundVars
       /\ UNCHANGED <<lockVars, connVars, diffVars, adaptVars, geoVars, winVars>>
    \/ /\ runs < MaxRuns /\ ReputationDB # "closed"
       /\ \E d \in CleanupDays : CleanupOldReputation(d)
       /\ cleanedIPs' = cleanedIPs \cup
                           ((DOMAIN ReputationScores) \ (DOMAIN ReputationScores'))
       /\ UNCHANGED <<runs, updatedIPs, atClose>>
       /\ UNCHANGED <<lockVars, connVars, diffVars, adaptVars, geoVars, winVars>>
    \/ /\ runs < MaxRuns /\ ReputationDB # "closed"
       /\ Tick /\ UNCHANGED repVars
       /\ UNCHANGED roundVars
       /\ UNCHANGED <<lockVars, connVars, diffVars, adaptVars, geoVars, winVars>>
    \/ /\ runs < MaxRuns /\ ReputationDB # "closed"
       /\ CloseReputationDB
       /\ atClose' = IF ReputationDB = "open" THEN ReputationScores ELSE atClose
       /\ UNCHANGED <<runs, updatedIPs, cleanedIPs>>
       /\ UNCHANGED <<lockVars, connVars, diffVars, adaptVars, geoVars, winVars>>
    \/ /\ Restart
       /\ runs < MaxRuns
       /\ runs' = runs + 1
       /\ UNCHANGED <<updatedIPs, cleanedIPs, atClose>>
       /\ UNCHANGED <<lockVars, connVars, diffVars, adaptVars, geoVars, winVars>>

SpecRound == InitRound /\ [][NextRound]_vars


\* ------------------------------------------- the reputation store, left to decay
\* A threshold at the default score and a decay interval of one second, with
\* and without persistence.
DecayConfigs == {ReputationConfig(TRUE, 50, TRUE, 1), ReputationConfig(TRUE, 50, FALSE, 1)}
DecayStoredScores == {49, 51}

InitDecay == \E b \in StoredBuckets(StoredIPs, DecayStoredScores) : InitWith(b)

NextDecay ==
    \/ \E cfg \in DecayConfigs : Load([DefaultConfig EXCEPT !.rep = cfg])
    \/ /\ \E t \in Threads, ip \in IPs : GetReputation_Call(t, ip)
       /\ UNCHANGED <<lockVars, connVars, diffVars, adaptVars, geoVars, roundVars, winVars>>
    \/ /\ \E t \in Threads : GetReputation_RLock(t)
       /\ UNCHANGED <<lockVars, connVars, diffVars, adaptVars, geoVars, roundVars, winVars>>
    \/ /\ \E t \in Threads : GetReputation_Lock(t)
       /\ UNCHANGED <<lockVars, connVars, diffVars, adaptVars, geoVars, roundVars, winVars>>
    \/ /\ \E t \in Threads : GetReputation_Save(t)
       /\ UNCHANGED <<lockVars, connVars, diffVars, adaptVars, geoVars, roundVars, winVars>>
    \/ /\ \E t \in Threads, ip \in IPs :
             UpdateReputation_Call(t, ip, ScoreRateLimitHit, "rate_limit_hit")
       /\ UNCHANGED <<lockVars, connVars, diffVars, adaptVars, geoVars, roundVars, winVars>>
    \/ /\ \E t \in Threads, ip \in IPs : IsIPBlocked(t, ip)
       /\ UNCHANGED <<lockVars, connVars, diffVars, adaptVars, geoVars, roundVars, winVars>>
    \/ /\ ReputationDecayRoutine
       /\ UNCHANGED <<lockVars, connVars, diffVars, adaptVars, geoVars, roundVars, winVars>>
    \/ /\ Tick /\ UNCHANGED repVars
       /\ UNCHANGED <<lockVars, connVars, diffVars, adaptVars, geoVars, roundVars, winVars>>

SpecDecay == InitDecay /\ [][NextDecay]_vars

\* The clock advances and the ticker of the decay routine fires.
ClockStep ==
    /\ Tick /\ UNCHANGED repVars
    /\ UNCHANGED <<lockVars, connVars, diffVars, adaptVars, geoVars, roundVars, winVars>>
DecayStep ==
    /\ ReputationDecayRoutine
    /\ UNCHANGED <<lockVars, connVars, diffVars, adaptVars, geoVars, roundVars, winVars>>

FairSpecDecay ==
    /\ SpecDecay
    /\ \A t \in Threads : WF_vars(GoroutineStep(t))
    /\ WF_vars(ClockStep)
    /\ WF_vars(DecayStep)

\* ------------------------------------------------------ the multi-window counter
NextWindows ==
    \/ \E cfg \in WindowConfigs : Load([DefaultConfig EXCEPT !.win = cfg])
    \/ /\ \E t \in Threads, ip \in IPs : RecordRequest_Call(t, ip)
       /\ UNCHANGED <<lockVars, repVars, connVars, diffVars, adaptVars, geoVars, roundVars>>
    \/ /\ \E t \in Threads : RecordRequest_Burst(t)
       /\ UNCHANGED <<lockVars, repVars, connVars, diffVars, adaptVars, geoVars, roundVars>>
    \/ /\ \E t \in Threads : RecordRequest_Short(t)
       /\ UNCHANGED <<lockVars, repVars, connVars, diffVars, adaptVars, geoVars, roundVars>>
    \/ /\ \E t \in Threads : RecordRequest_Medium(t)
       /\ UNCHANGED <<lockVars, repVars, connVars, diffVars, adaptVars, geoVars, roundVars>>
    \/ /\ \E t \in Threads : RecordRequest_Long(t)
       /\ UNCHANGED <<lockVars, repVars, connVars, diffVars, adaptVars, geoVars, roundVars>>
    \/ /\ \E ip \in IPs, window \in WindowNames : GetRequestCount(ip, window)
       /\ UNCHANGED <<lockVars, repVars, connVars, diffVars, adaptVars, geoVars, roundVars>>
    \/ /\ CleanupOldWindows
       /\ UNCHANGED <<lockVars, repVars, connVars, diffVars, adaptVars, geoVars, roundVars>>
    \/ /\ TickWindow
       /\ UNCHANGED <<lockVars, winVars, repVars, connVars, diffVars, adaptVars, geoVars,
                      roundVars>>

SpecWindows == InitTrust /\ [][NextWindows]_vars


\* ------------------------------------------------- the background tasks at shutdown
\* Persistence and the adaptive rate limit enabled: every task of the model runs.
ShutdownConfig ==
    [DefaultConfig EXCEPT !.rep = ReputationConfig(TRUE, 0, TRUE, 1),
                          !.adapt = AdaptiveConfig(TRUE, Zero, Zero, Zero, TRUE)]

\* The background tasks, an external writer of the domain telemetry, the clock,
\* and CloseReputationDB at shutdown.
NextShutdown ==
    \/ Load(ShutdownConfig)
    \/ /\ ReputationDecayRoutine
       /\ UNCHANGED <<lockVars, connVars, diffVars, adaptVars, geoVars, roundVars, winVars>>
    \/ /\ CleanupOldEntries
       /\ UNCHANGED <<lockVars, conn, repVars, diffVars, adaptVars, geoVars, roundVars, winVars>>
    \/ /\ CleanupOldWindows
       /\ UNCHANGED <<lockVars, repVars, connVars, diffVars, adaptVars, geoVars, roundVars>>
    \/ /\ AdaptiveRoutineTick
       /\ UNCHANGED <<lockVars, repVars, connVars, diffVars, geoVars, roundVars, winVars>>
    \/ /\ CleanupGeoCache
       /\ UNCHANGED <<lockVars, repVars, connVars, diffVars, adaptVars, roundVars, winVars>>
    \/ /\ \E d \in DOMAIN DomainsData, raw \in BOOLEAN, bypass \in BOOLEAN :
             SetDomainTelemetry(d, DomainsData[d].Stage, raw, bypass)
       /\ UNCHANGED <<lockVars, adaptVars, connVars, geoVars, roundVars, winVars>>
    \/ /\ Tick /\ UNCHANGED repVars
       /\ UNCHANGED <<lockVars, connVars, diffVars, adaptVars, geoVars, roundVars, winVars>>
    \/ /\ CloseReputationDB
       /\ UNCHANGED <<lockVars, connVars, diffVars, adaptVars, geoVars, roundVars, winVars>>

SpecShutdown == InitRound /\ [][NextShutdown]_vars

\* ------------------------------------------------------------------ the locks
\* The tasks of a proxy with the multiplier routine running, with and without
\* metrics.
LockConfigs ==
    {[DefaultConfig EXCEPT !.adapt = AdaptiveConfig(TRUE, Zero, Zero, Zero, TRUE),
                           !.metrics = m] : m \in BOOLEAN}

NextLocks ==
    \/ \E cfg \in LockConfigs : Load(cfg)
    \/ /\ MetricsUpdateRoutine
       /\ UNCHANGED <<MetricsEnabled, PerIPMetrics, observed, repVars, connVars,
                      diffVars, adaptVars, geoVars,
                      roundVars, winVars, sysVars>>
    \/ /\ MetricsCleanupRoutine
       /\ UNCHANGED <<MetricsEnabled, PerIPMetrics, observed, repVars, connVars,
                      diffVars, adaptVars, geoVars,
                      roundVars, winVars, sysVars>>
    \/ /\ AdaptiveRoutineLocks
       /\ UNCHANGED <<MetricsEnabled, PerIPMetrics, observed, repVars, connVars,
                      diffVars, adaptVars, geoVars,
                      roundVars, winVars, sysVars>>
    \/ /\ HotPath
       /\ UNCHANGED <<MetricsEnabled, PerIPMetrics, observed, repVars, connVars,
                      diffVars, adaptVars, geoVars,
                      roundVars, winVars, sysVars>>
    \/ /\ TelemetryWriter
       /\ UNCHANGED <<MetricsEnabled, PerIPMetrics, observed, repVars, connVars,
                      diffVars, adaptVars, geoVars,
                      roundVars, winVars, sysVars>>

SpecLocks == InitTrust /\ [][NextLocks]_vars

\* ---------------------------------------------------- the trust-list learning
\* The outcomes of one client, in any order, up to MaxOutcomes for an entry.
NextLearning ==
    \/ \E cfg \in TrustConfigs : Load([DefaultConfig EXCEPT !.adapt = cfg])
    \/ /\ \E success \in BOOLEAN :
             /\ RequestCountOf("a") < MaxOutcomes
             /\ UpdateWhitelistLearning("a", success)
       /\ UNCHANGED <<lockVars, series, repVars, connVars, diffVars, geoVars, roundVars, winVars>>
    \/ /\ CheckWhitelist("a")
       /\ UNCHANGED <<lockVars, repVars, connVars, diffVars, geoVars, roundVars, winVars>>

SpecLearning == InitTrust /\ [][NextLearning]_vars

\* ------------------------------------------------------------ per-IP metrics
MetricsConfigs == {[DefaultConfig EXCEPT !.metrics = m] : m \in BOOLEAN}

NextMetrics ==
    \/ \E cfg \in MetricsConfigs : Load(cfg)
    \/ /\ \E bypassed \in BOOLEAN, blocked \in BOOLEAN :
              /\ IF "a" \in DOMAIN PerIPMetrics
                 THEN PerIPMetrics["a"].TotalRequests < MaxIPRequests ELSE TRUE
              /\ RecordIPRequest("a", bypassed, blocked)
       /\ UNCHANGED <<repVars, connVars, diffVars, adaptVars, geoVars,
                      roundVars, winVars>>
    \/ /\ \E ip \in IPs :
              /\ IF ip \in DOMAIN PerIPMetrics
                 THEN PerIPMetrics[ip].ChallengeFailures < MaxIPEvents ELSE TRUE
              /\ RecordIPChallengeFailure(ip)
       /\ UNCHANGED <<repVars, connVars, diffVars, adaptVars, geoVars,
                      roundVars, winVars>>
    \/ /\ \E ip \in IPs :
              /\ IF ip \in DOMAIN PerIPMetrics
                 THEN PerIPMetrics[ip].RateLimitHits < MaxIPEvents ELSE TRUE
              /\ RecordIPRateLimitHit(ip)
       /\ UNCHANGED <<repVars, connVars, diffVars, adaptVars, geoVars,
                      roundVars, winVars>>
    \/ /\ \E score \in MetricScores : UpdateIPReputationScore("a", score)
       /\ UNCHANGED <<repVars, connVars, diffVars, adaptVars, geoVars,
                      roundVars, winVars>>
    \/ /\ CleanupOldIPMetrics
       /\ UNCHANGED <<repVars, connVars, diffVars, adaptVars, geoVars,
                      roundVars, winVars>>
    \/ /\ TickMetrics
       /\ UNCHANGED <<repVars, connVars, diffVars, adaptVars, geoVars,
                      roundVars, winVars>>

SpecMetrics == InitTrust /\ [][NextMetrics]_vars

\* ------------------------------------------------------------- the geo cache
\* Lookups with geo filtering off and on, the clock in steps of GeoCacheTTL.
GeoCacheConfigs ==
    {GeoConfig(FALSE, "blacklist", << >>, << >>, << >>, FALSE),
     GeoConfig(TRUE, "blacklist", << >>, <<"RU">>, << >>, FALSE)}
GeoCacheOutcomes ==
    {[kind |-> "transport"],
     [kind |-> "ok", ASN |-> 64500, CountryCode |-> "US"],
     [kind |-> "ok", ASN |-> 64501, CountryCode |-> "ru"]}

NextGeoCache ==
    \/ \E cfg \in GeoCacheConfigs : Load([DefaultConfig EXCEPT !.geo = cfg])
    \/ /\ \E t \in Threads, ip \in IPs : GetGeoData_Call(t, "Lookup", ip)
       /\ UNCHANGED <<lockVars, repVars, connVars, diffVars, adaptVars, roundVars, winVars>>
    \/ /\ \E t \in Threads, outcome \in GeoCacheOutcomes : GetGeoData_Fetch(t, outcome)
       /\ UNCHANGED <<lockVars, repVars, connVars, diffVars, adaptVars, roundVars, winVars>>
    \/ /\ CleanupGeoCache
       /\ UNCHANGED <<lockVars, repVars, connVars, diffVars, adaptVars, roundVars, winVars>>
    \/ /\ TickGeoTTL
       /\ UNCHANGED <<lockVars, geoVars, repVars, connVars, diffVars, adaptVars, roundVars, winVars>>

SpecGeoCache == InitTrust /\ [][NextGeoCache]_vars

\* ------------------------------------------- window sizes that divide each other
\* The default sizes (10, 60, 300, 3600) and the sizes 1, 2, 4, 8.
NestedWindowConfigs == {WindowConfig(0, 0, 0, 0), WindowConfig(1, 2, 4, 8)}

NextNested ==
    \/ \E cfg \in NestedWindowConfigs : Load([DefaultConfig EXCEPT !.win = cfg])
    \/ /\ \E t \in Threads : RecordRequest_Call(t, "a")
       /\ UNCHANGED <<lockVars, repVars, connVars, diffVars, adaptVars, geoVars, roundVars>>
    \/ /\ \E t \in Threads : RecordRequest_Burst(t)
       /\ UNCHANGED <<lockVars, repVars, connVars, diffVars, adaptVars, geoVars, roundVars>>
    \/ /\ \E t \in Threads : RecordRequest_Short(t)
       /\ UNCHANGED <<lockVars, repVars, connVars, diffVars, adaptVars, geoVars, roundVars>>
    \/ /\ \E t \in Threads : RecordRequest_Medium(t)
       /\ UNCHANGED <<lockVars, repVars, connVars, diffVars, adaptVars, geoVars, roundVars>>
    \/ /\ \E t \in Threads : RecordRequest_Long(t)
       /\ UNCHANGED <<lockVars, repVars, connVars, diffVars, adaptVars, geoVars, roundVars>>
    \/ /\ \E window \in WindowNames : GetRequestCount("a", window)
       /\ UNCHANGED <<lockVars, repVars, connVars, diffVars, adaptVars, geoVars, roundVars>>
    \/ /\ CleanupOldWindows
       /\ UNCHANGED <<lockVars, repVars, connVars, diffVars, adaptVars, geoVars, roundVars>>
    \/ /\ TickNested
       /\ UNCHANGED <<lockVars, winVars, repVars, connVars, diffVars, adaptVars, geoVars,
                      roundVars>>

SpecNested == InitTrust /\ [][NextNested]_vars

\* ---------------------------------------------------------------------
\* Reputation store: the claims
\* ---------------------------------------------------------------------
InUpdate(t) == th[t].op = "Update" /\ th[t].pc # "idle"

\* C1: a goroutine inside UpdateReputation never waits for ReputationMutex
\* while it holds that mutex itself (so the call completes and the lock is
\* released for every later Score, IsBlocked, Update and decay tick).
C1_UpdateNeverWaitsOnOwnLock ==
    \A t \in Threads : ~(InUpdate(t) /\ th[t].pc = "gr_rlock" /\ ReputationMutex = t)

\* C2: every record in memory has 0 <= Score <= 100, and GetReputationScore
\* gives a value in [0, 100] for every IP, known or unknown.
C2_ScoreInRange ==
    /\ \A ip \in DOMAIN ReputationScores :
          /\ ReputationScores[ip].Score >= 0
          /\ ReputationScores[ip].Score <= 100
    /\ \A ip \in IPs : ReputationScoreOf(ip) >= 0 /\ ReputationScoreOf(ip) <= 100
    /\ ret.op = "Score" => (ret.val >= 0 /\ ret.val <= 100)

\* Records were loaded from the store and decay ticks have moved a record that
\* was loaded at a bound of the range, while an UpdateReputation call is under way.
C2_Witness ==
    /\ \E ip \in DOMAIN ReputationScores :
          /\ ReputationScores[ip].Score \in {2, 98}
          /\ ReputationScores[ip].LastDecay > 0
    /\ \E t \in Threads : InUpdate(t)

Min2(x, y) == IF x < y THEN x ELSE y
Max2(x, y) == IF x > y THEN x ELSE y

\* What C3 says UpdateReputation(ip, delta, reason) makes of the record old.
C3_Expected(old, delta, reason) ==
    [old EXCEPT
        !.Score = Min2(100, Max2(0, old.Score + delta)),
        !.TotalRequests = old.TotalRequests + 1,
        !.FailedChallenges = old.FailedChallenges
                               + (IF reason = "challenge_failure" THEN 1 ELSE 0),
        !.RateLimitHits = old.RateLimitHits
                               + (IF reason = "rate_limit_hit" THEN 1 ELSE 0)]

C3_Returned(ip, delta, reason) ==
    /\ ret.op = "Update" /\ ret.done
    /\ ret.ip = ip /\ ret.delta = delta /\ ret.reason = reason
    /\ LET want == C3_Expected(ret.old, delta, reason)
       IN /\ ret.new.Score = want.Score
          /\ ret.new.TotalRequests = want.TotalRequests
          /\ ret.new.FailedChallenges = want.FailedChallenges
          /\ ret.new.RateLimitHits = want.RateLimitHits

\* C3: a call UpdateReputation(ip, delta, reason) returns, having set the
\* record's score to min(100, max(0, old + delta)) and raised TotalRequests by
\* one and the counter of its reason by one.
C3_UpdateTakesEffect ==
    \A ip \in IPs, in \in UpdateInputs :
        (\E t \in Threads : InUpdate(t) /\ th[t].ip = ip
                            /\ th[t].delta = in[1] /\ th[t].reason = in[2])
            ~> C3_Returned(ip, in[1], in[2])

\* The score C4 says GetReputationScore(ip) returns.
C4_Score(ip) ==
    IF ip \in DOMAIN ReputationScores THEN ReputationScores[ip].Score ELSE 50

\* C4: GetReputationScore(ip) returns 50 for an IP without a record and the
\* stored score otherwise; IsIPBlocked(ip) is true exactly when reputation is
\* enabled and that score is strictly below ReputationMinScore; neither call
\* creates or changes a record.
C4_ScoreAndBlocked ==
    [][\A t \in Threads, ip \in IPs :
          /\ GetReputationScore(t, ip) =>
                /\ ret'.val = C4_Score(ip)
                /\ UNCHANGED <<ReputationScores, bucket>>
          /\ IsIPBlocked(t, ip) =>
                /\ ret'.val = (ReputationEnabled /\ C4_Score(ip) < ReputationMinScore)
                /\ UNCHANGED <<ReputationScores, bucket>>]_vars

\* IsIPBlocked has answered "not blocked" for an IP whose stored score equals
\* ReputationMinScore.
C4_Witness ==
    /\ ret.op = "IsBlocked" /\ ret.val = FALSE
    /\ ret.ip \in DOMAIN ReputationScores
    /\ ReputationScores[ret.ip].Score = ReputationMinScore

\* ---------------------------------------------------------------------
\* Connection limiter: the claims
\* ---------------------------------------------------------------------
\* C5: when every caller increments only after its own CheckConnectionLimit
\* returned true and decrements when its connection closes, the active count of
\* an ip never exceeds MaxConcurrentConnPerIP, in any interleaving.
C5_ActiveWithinCap ==
    \A ip \in IPs : MapGet(ActiveConnections, ip) <= MaxConcurrentConnPerIP

\* The timestamps of ip younger than ConnectionRateWindow, counted by position.
C6_Young(ip) ==
    LET stamps == MapGetSeq(ConnectionRate, ip)
    IN Cardinality({i \in 1..Len(stamps) : now - stamps[i] < ConnectionRateWindow})

C6_Allowed(ip) ==
    /\ MapGet(ActiveConnections, ip) < MaxConcurrentConnPerIP
    /\ C6_Young(ip) < MaxConnRatePerIP
    /\ ~EnableSynFloodProtection \/ MapGet(HalfOpenConnections, ip) < MaxHalfOpenPerIP

RECURSIVE C6_Increments(_, _, _, _, _)
C6_Increments(n, active, rate, ip, t) ==
    IF n = 0 THEN [active |-> active, rate |-> rate]
    ELSE LET r == IncrementConnectionOf(active, rate, ip, t)
         IN C6_Increments(n - 1, r.active, r.rate, ip, t)

\* Ten calls of IncrementConnection(ip) at the current second, then
\* CheckConnectionLimit(ip) under the default limits.
C6_AfterTen(ip) ==
    LET r == C6_Increments(10, ActiveConnections, ConnectionRate, ip, now)
    IN CheckConnectionLimitOf(r.active, r.rate, HalfOpenConnections, ip, now,
                              DefaultMaxConcurrentConnPerIP, DefaultMaxConnRatePerIP,
                              DefaultMaxHalfOpenPerIP, EnableSynFloodProtection).ok

\* C6: CheckConnectionLimit(ip) returns true iff active < MaxConcurrentConnPerIP
\* and the timestamps of ip younger than the window number < MaxConnRatePerIP
\* and (SYN-flood protection is off or half-open < MaxHalfOpenPerIP); it changes
\* no active or half-open count and adds no timestamp; when it returns true
\* the stored window of ip holds at most MaxConnRatePerIP timestamps; with the
\* default limits the check after ten increments within a second returns false.
C6_CheckLimit ==
    [][/\ \A ip \in IPs :
             CheckConnectionLimit(ip) =>
                /\ ret'.val = C6_Allowed(ip)
                /\ UNCHANGED <<ActiveConnections, HalfOpenConnections>>
                /\ \A other \in IPs :
                      /\ Len(MapGetSeq(ConnectionRate', other))
                            <= Len(MapGetSeq(ConnectionRate, other))
                      /\ \A i \in 1..Len(MapGetSeq(ConnectionRate', other)) :
                            \E j \in 1..Len(MapGetSeq(ConnectionRate, other)) :
                               ConnectionRate'[other][i] = ConnectionRate[other][j]
                /\ ret'.val => Len(MapGetSeq(ConnectionRate', ip)) <= MaxConnRatePerIP
       /\ \A ip \in IPs : C6_AfterTen(ip) = FALSE]_vars

\* A check that returned true over a window it pruned, under configured limits.
C6_Witness ==
    /\ ret.op = "Check" /\ ret.val
    /\ MaxConnRatePerIP = 2 /\ EnableSynFloodProtection
    /\ Len(MapGetSeq(ConnectionRate, ret.ip)) = 1
    /\ now > ConnectionRate[ret.ip][1]
    /\ MapGet(HalfOpenConnections, ret.ip) = 0

\* C7: the active and half-open counts of every ip are >= 0 whatever the order
\* of increments and decrements; a decrement of a count that is 0 leaves it 0,
\* and GetConnectionCount then returns 0.
C7_NoUnderflow ==
    [][/\ \A ip \in IPs :
             /\ MapGet(ActiveConnections, ip) >= 0
             /\ MapGet(HalfOpenConnections, ip) >= 0
             /\ MapGet(ActiveConnections', ip) >= 0
             /\ MapGet(HalfOpenConnections', ip) >= 0
       /\ \A ip \in IPs :
             /\ (DecrementConnection(ip) /\ MapGet(ActiveConnections, ip) = 0)
                   => MapGet(ActiveConnections', ip) = 0
             /\ (DecrementHalfOpen(ip) /\ MapGet(HalfOpenConnections, ip) = 0)
                   => MapGet(HalfOpenConnections', ip) = 0
             /\ (GetConnectionCount(ip) /\ MapGet(ActiveConnections, ip) = 0)
                   => ret'.val = 0]_vars

\* DecrementConnection returned for an ip that has had no connection.
C7_Witness ==
    /\ ret.op = "Decrement"
    /\ now = 0
    /\ Len(MapGetSeq(ConnectionRate, ret.ip)) = 0
    /\ MapGet(ActiveConnections, ret.ip) = 0
    /\ \E other \in IPs : MapGet(ActiveConnections, other) = MaxActive

\* ---------------------------------------------------------------------
\* Difficulty controller: the claims
\* ---------------------------------------------------------------------
\* C8: whatever the ip, the domain name (configured or not), the domain's
\* stage-2 difficulty, the reputation score and the attack and stage state,
\* with MinDifficulty <= MaxDifficulty, the value GetEffectiveDifficulty
\* returns lies in [MinDifficulty, MaxDifficulty].
C8_DifficultyInRange ==
    (ret.op = "Difficulty" /\ MinDifficulty <= MaxDifficulty)
        => (MinDifficulty <= ret.val /\ ret.val <= MaxDifficulty)

C9_Rep(score) ==
    IF score < 30 THEN 3
    ELSE IF score <= 49 THEN 2
    ELSE IF score <= 69 THEN 1
    ELSE IF score <= 89 THEN 0
    ELSE -1
C9_Attack(d) ==
    IF DomainsData[d].BypassAttack THEN 2 ELSE IF DomainsData[d].RawAttack THEN 1 ELSE 0
C9_Stage(d) ==
    IF DomainsData[d].Stage = 3 THEN 1 ELSE IF DomainsData[d].Stage = 1 THEN -1 ELSE 0
C9_Base(d) ==
    IF DomainsData[d].Stage2Difficulty = 0 THEN BaseDifficulty
    ELSE DomainsData[d].Stage2Difficulty
C9_Clamp(x) ==
    IF x < MinDifficulty THEN MinDifficulty
    ELSE IF x > MaxDifficulty THEN MaxDifficulty ELSE x
C9_Score(ip) ==
    IF ip \in DOMAIN ReputationScores THEN ReputationScores[ip].Score
    ELSE DefaultReputationScore

\* C9: for a domain of the domain table, GetEffectiveDifficulty returns
\* clamp(base + rep + attack + stage) with base the stage-2 difficulty (the
\* global base when 0), rep +3/+2/+1/0/-1 by score band, attack +2 bypass else
\* +1 raw else 0, and stage +1 at stage 3, -1 at stage 1, 0 at every other stage.
C9_DifficultyFormula ==
    [][\A ip \in IPs, d \in DomainNames :
          (GetEffectiveDifficulty(ip, d) /\ d \in DOMAIN DomainsData)
             => ret'.val = C9_Clamp(C9_Base(d) + C9_Rep(C9_Score(ip))
                                    + C9_Attack(d) + C9_Stage(d))]_vars

\* An ip without a reputation record, a domain of the table at stage 1 with no
\* attack and base difficulty 5.
C10_ColdCase(ip, d) ==
    /\ ip \notin DOMAIN ReputationScores
    /\ d \in DOMAIN DomainsData
    /\ DomainsData[d].Stage = 1
    /\ ~DomainsData[d].RawAttack /\ ~DomainsData[d].BypassAttack
    /\ C9_Base(d) = 5

\* C10 as stated: for a never-seen ip and a configured domain at stage 1 with
\* no attack and base 5, GetEffectiveDifficulty returns 4.
C10_ColdReturnsFour ==
    [][\A ip \in IPs, d \in DomainNames :
          (GetEffectiveDifficulty(ip, d) /\ C10_ColdCase(ip, d)) => ret'.val = 4]_vars

\* C10: for a never-seen ip (score 50, adjustment +1) and a configured domain at
\* stage 1 with no attack and base 5, GetEffectiveDifficulty returns
\* 5 + 1 + 0 - 1 = 5 clamped to [MinDifficulty, MaxDifficulty]: 5 under the
\* default bounds 1 and 10.
C10_ColdReturnsFive ==
    [][\A ip \in IPs, d \in DomainNames :
          (GetEffectiveDifficulty(ip, d) /\ C10_ColdCase(ip, d))
             => /\ ret'.val = C9_Clamp(5)
                /\ (MinDifficulty = DefaultMinDifficulty
                      /\ MaxDifficulty = DefaultMaxDifficulty) => ret'.val = 5]_vars

C10_Witness ==
    /\ ret.op = "Difficulty" /\ ret.val = 5
    /\ ret.domain = ConfiguredDomain
    /\ C10_ColdCase(ret.ip, ret.domain)
    /\ MinDifficulty = DefaultMinDifficulty /\ MaxDifficulty = DefaultMaxDifficulty

\* ---------------------------------------------------------------------
\* Adaptive controller: the claims
\* ---------------------------------------------------------------------
\* C11: an ip whose trust entry holds fewer than 10 recorded outcomes since it
\* was (re)created is never reported as trusted by CheckWhitelist.
C11_NoTrustBelowThreshold ==
    [][\A ip \in IPs :
          (CheckWhitelist(ip) /\ RequestCountOf(ip) < 10) => ret'.val = FALSE]_vars

\* C12: from no trust entry, after 10 successful outcomes the ip is trusted;
\* after 5 further failed outcomes it is not trusted; after that it is trusted
\* again only once 10 more outcomes have been recorded.
C12_TrustSeries ==
    \A ip \in IPs :
       AdaptiveLearningEnabled =>
          /\ series[ip] = 10 => CheckWhitelistOf(ip)
          /\ series[ip] = 15 => ~CheckWhitelistOf(ip)
          /\ (series[ip] > 15 /\ series[ip] < 25) => ~CheckWhitelistOf(ip)

C13_Configured ==
    /\ RLess(Zero, AdaptiveAttackMultiplier)
    /\ ~RLess(AdaptiveBaseMultiplier, AdaptiveAttackMultiplier)
    /\ RLess(Zero, AdaptiveDecayRate)
    /\ ~RLess(Rat(1, 1), AdaptiveDecayRate)

C13_Multiplier(d) ==
    IF d \in DOMAIN AdaptiveMultipliers THEN AdaptiveMultipliers[d]
    ELSE AdaptiveBaseMultiplier

\* C13: with 0 < attack_multiplier <= base_multiplier and 0 < decay_rate <= 1,
\* after any sequence of multiplier ticks under any attack flags every
\* domain's multiplier lies in [attack_multiplier, base_multiplier].
C13_MultiplierInRange ==
    C13_Configured =>
       \A d \in DomainNames :
          /\ ~RLess(C13_Multiplier(d), AdaptiveAttackMultiplier)
          /\ ~RLess(AdaptiveBaseMultiplier, C13_Multiplier(d))

\* The integer part of max(base * m, base * attack_multiplier), m = p/q and
\* attack_multiplier = r/s, by integer division.
C14_Limit(base, d) ==
    LET m == C13_Multiplier(d)
        byM == (base * m[1]) \div m[2]
        byAttack == (base * AdaptiveAttackMultiplier[1]) \div AdaptiveAttackMultiplier[2]
    IN IF base * m[1] * AdaptiveAttackMultiplier[2]
             >= base * AdaptiveAttackMultiplier[1] * m[2]
       THEN byM ELSE byAttack

C14_Floor(base) ==
    (base * AdaptiveAttackMultiplier[1]) \div AdaptiveAttackMultiplier[2]

C15_Upper(code) ==
    CASE code = "ru" -> "RU"
      [] code = "us" -> "US"
      [] OTHER -> code
C15_SameIgnoringCase(a, b) == C15_Upper(a) = C15_Upper(b)
C15_Expected(asn, countryCode) ==
    IF asn \in {BlockedASN[i] : i \in 1..Len(BlockedASN)} THEN TRUE
    ELSE IF GeoFilterMode = "whitelist"
    THEN \A i \in 1..Len(AllowedCountries) :
             ~C15_SameIgnoringCase(countryCode, AllowedCountries[i])
    ELSE IF GeoFilterMode = "blacklist"
    THEN \E i \in 1..Len(BlockedCountries) :
             C15_SameIgnoringCase(countryCode, BlockedCountries[i])
    ELSE FALSE

\* C15: with geo filtering enabled and a lookup that succeeds (from the cache
\* or from the resolver), CheckFilter blocks when the ASN is in BlockedASN;
\* otherwise, in whitelist mode, exactly when the country code equals no entry
\* of AllowedCountries ignoring case; otherwise, in blacklist mode, exactly when
\* it equals some entry of BlockedCountries ignoring case; otherwise it does
\* not block.
C15_FilterPolicy ==
    [][/\ \A t \in Threads, ip \in IPs :
            ( /\ GetGeoData_Call(t, "CheckFilter", ip)
              /\ GeoFilteringEnabled
              /\ ip \in DOMAIN GeoCache
              /\ now - GeoCache[ip].CachedAt < GeoCacheTTL )
            => ret'.block = C15_Expected(GeoCache[ip].ASN, GeoCache[ip].CountryCode)
       /\ \A t \in Threads, o \in FetchedRecords :
            (GetGeoData_Fetch(t, o) /\ geo[t].op = "CheckFilter")
            => ret'.block = C15_Expected(o.ASN, o.CountryCode)]_vars

\* C15 witness: in blacklist mode with BlockedCountries = ["RU"], CheckFilter
\* blocked an address whose resolved country code is "ru".
C15_Witness ==
    /\ ret.op = "CheckFilter"
    /\ ret.block
    /\ ret.reason = "blocked"
    /\ GeoFilterMode = "blacklist"
    /\ BlockedCountries = <<"RU">>
    /\ ret.ip \in DOMAIN GeoCache
    /\ GeoCache[ret.ip].CountryCode = "ru"
    /\ GeoCache[ret.ip].ASN \notin {BlockedASN[i] : i \in 1..Len(BlockedASN)}

\* C16: when the fetch of a lookup fails (transport error, status other than
\* 200, unreadable or undecodable body, status field other than "ok"), Lookup
\* returns no record and an error, CheckFilter returns (true, "challenge") if
\* ChallengeUnknown is set and (false, "") otherwise, and the geo cache is left
\* exactly as it was.
C16_FailedLookup ==
    [][\A t \in Threads, o \in FetchFailures :
          GetGeoData_Fetch(t, o) =>
            /\ GeoCache' = GeoCache
            /\ geo[t].op = "Lookup" => (ret'.rec = Nil /\ ret'.err # "nil")
            /\ geo[t].op = "CheckFilter" =>
                 /\ ret'.block = ChallengeUnknown
                 /\ ret'.reason = (IF ChallengeUnknown THEN "challenge" ELSE "")]_vars

\* C16 witness: CheckFilter answered (true, "challenge") for an address whose
\* stale cache entry is still there, with the time stamp it had.
C16_Witness ==
    /\ ret.op = "CheckFilter"
    /\ ret.block
    /\ ret.reason = "challenge"
    /\ ret.ip \in DOMAIN GeoCache
    /\ GeoCache[ret.ip].CachedAt = 0
    /\ now - GeoCache[ret.ip].CachedAt >= GeoCacheTTL

\* ---------------------------------------------------------------------
\* Reputation store: persistence, cleanup and decay
\* ---------------------------------------------------------------------
\* C17: with persistence enabled, after the database was opened, Update was
\* called on some IPs (with decay ticks in between), the database was closed
\* and the process opened it again, the in-memory store holds for each of those
\* IPs a record whose score is the score it had when the database was closed,
\* except for the records Cleanup removed.
C17_RoundTrip ==
    [][(phase = "boot" /\ phase' = "run" /\ runs > 1) =>
          \A ip \in updatedIPs \ cleanedIPs :
              /\ ip \in DOMAIN ReputationScores'
              /\ ip \in DOMAIN atClose =>
                    ReputationScores'[ip].Score = atClose[ip].Score]_vars

\* C18: Cleanup(daysOld) removes exactly the records whose last_updated is
\* older than the threshold and whose score is 50, and keeps every other
\* record, with persistence enabled and with the in-memory store alone.
C18_CleanupRemovesExactly ==
    [][\A d \in CleanupDays :
          CleanupOldReputation(d) =>
            DOMAIN ReputationScores' =
              {ip \in DOMAIN ReputationScores :
                  ~( /\ ReputationScores[ip].LastUpdated < now - d * SecondsPerDay
                     /\ ReputationScores[ip].Score = DefaultReputationScore )}]_vars

C19_UpdatePending(ip) == \E t \in Threads : th[t].op = "Update" /\ th[t].ip = ip

\* C19: with reputation enabled, a record that receives no further Update
\* eventually has score 50 through the decay ticks, and an IP that is blocked
\* and idle is eventually no longer blocked.
C19_DecayReachesDefault ==
    \A ip \in IPs :
       /\ (phase = "run" /\ ReputationEnabled /\ ip \in DOMAIN ReputationScores)
            ~> \/ ip \notin DOMAIN ReputationScores
               \/ ReputationScores[ip].Score = DefaultReputationScore
               \/ C19_UpdatePending(ip)
       /\ (phase = "run" /\ IsIPBlockedOf(ip))
            ~> (~IsIPBlockedOf(ip) \/ C19_UpdatePending(ip))

\* ---------------------------------------------------------------------
\* Multi-window counter: the claims
\* ---------------------------------------------------------------------
C20_Windows == {"burst", "short", "medium", "long"}
C20_Map(w) ==
    CASE w = "burst" -> BurstWindowIps
      [] w = "short" -> ShortWindowIps
      [] w = "medium" -> MediumWindowIps
      [] w = "long" -> LongWindowIps
C20_Size(w) ==
    CASE w = "burst" -> BurstWindow
      [] w = "short" -> ShortWindow
      [] w = "medium" -> MediumWindow
      [] w = "long" -> LongWindow
C20_Times == 0..(MaxWindowTime + 1)
C20_Busy(t) == win[t].pc \in {"short", "medium", "long"}

\* The counts RecordRequest of goroutine t has added when it is done with the
\* windows in `done`: one for its ip in the bucket of the time it read, in each
\* of those windows.
C20_Added(t, done, w, ts, ip) ==
    IF w \in done /\ ip = win[t].ip /\ ts = BucketOf(win[t].at, C20_Size(w))
    THEN 1 ELSE 0

\* C20: each Record(ip) raises by exactly 1 the count of ip in the bucket, of
\* the time the call read, of each of the four windows and changes no other
\* count; no Count runs between the first and the last of the four increments;
\* and no step lowers a count inside a bucket that still exists.
C20_RecordAtomic ==
    [][/\ \A t \in Threads, w \in C20_Windows, ts \in C20_Times, ip \in IPs :
            /\ RecordRequest_Burst(t) =>
                  CountIn(C20_Map(w)', ts, ip) =
                     CountIn(C20_Map(w), ts, ip) + C20_Added(t, {"burst"}, w, ts, ip)
            /\ RecordRequest_Short(t) =>
                  CountIn(C20_Map(w)', ts, ip) =
                     CountIn(C20_Map(w), ts, ip) + C20_Added(t, {"short"}, w, ts, ip)
            /\ RecordRequest_Medium(t) =>
                  CountIn(C20_Map(w)', ts, ip) =
                     CountIn(C20_Map(w), ts, ip) + C20_Added(t, {"medium"}, w, ts, ip)
            /\ RecordRequest_Long(t) =>
                  CountIn(C20_Map(w)', ts, ip) =
                     CountIn(C20_Map(w), ts, ip) + C20_Added(t, {"long"}, w, ts, ip)
       /\ \A ip \in IPs, w \in C20_Windows :
            (GetRequestCount(ip, w) /\ MultiWindowEnabled) =>
               \A t \in Threads : ~C20_Busy(t)
       /\ \A w \in C20_Windows, ip \in IPs :
            \A ts \in (DOMAIN C20_Map(w)) \cap (DOMAIN C20_Map(w)') :
               CountIn(C20_Map(w)', ts, ip) >= CountIn(C20_Map(w), ts, ip)]_vars

\* C20 witness: a RecordRequest has returned, its ip counted in the bucket of
\* each of the four windows, while another goroutine's RecordRequest waits for
\* the lock with a timestamp read earlier.
C20_Witness ==
    /\ ret.op = "Record"
    /\ ret.done
    /\ \A w \in C20_Windows :
          CountIn(C20_Map(w), BucketOf(ret.at, C20_Size(w)), ret.ip) >= 1
    /\ \E t \in Threads : win[t].pc = "lock" /\ win[t].at < now

C21_Stored(window) ==
    CASE window = "burst" -> [map |-> BurstWindowIps, size |-> BurstWindow]
      [] window = "short" -> [map |-> ShortWindowIps, size |-> ShortWindow]
      [] window = "medium" -> [map |-> MediumWindowIps, size |-> MediumWindow]
      [] window = "long" -> [map |-> LongWindowIps, size |-> LongWindow]
C21_Key(t, size) == t - (t % size)
C21_Expected(ip, window, t) ==
    IF window \notin {"burst", "short", "medium", "long"} THEN 0
    ELSE LET w == C21_Stored(window)
             key == C21_Key(t, w.size)
         IN IF key \notin DOMAIN w.map THEN 0
            ELSE IF ip \notin DOMAIN w.map[key] THEN 0
            ELSE w.map[key][ip]

\* C21: Count(ip, window) returns the count stored for ip in the bucket whose
\* key is floor(now / W) * W, 0 when the bucket or the IP is absent and 0 for
\* an unknown window name; right after the clock crosses a bucket boundary of
\* a window, Count for that window is 0 whatever the previous bucket holds.
C21_CountOfCurrentBucket ==
    [][/\ \A ip \in IPs, window \in WindowNames :
            GetRequestCount(ip, window) => ret'.val = C21_Expected(ip, window, now)
       /\ \A ip \in IPs, window \in {"burst", "short", "medium", "long"} :
            (TickWindow /\ C21_Key(now', C21_Stored(window).size)
                              # C21_Key(now, C21_Stored(window).size))
            => RequestCountAt(ip, window, now)' = 0]_vars

\* C21 witness: Count returned 0 for the burst window in the second after a
\* second in which the same IP was recorded.
C21_Witness ==
    /\ ret.op = "Count"
    /\ ret.window = "burst"
    /\ ret.val = 0
    /\ ret.at = now
    /\ BurstWindow = 1
    /\ CountIn(BurstWindowIps, now - 1, ret.ip) >= 1

\* ---------------------------------------------------------------------
\* Background tasks: the claims
\* ---------------------------------------------------------------------
\* C22: once shutdown is signalled (the store is closed), no background task
\* runs another tick: the reputation records, the limiter's rate windows, the
\* window buckets, the multipliers, the trust list and the geo cache change no
\* more.
C22_TasksStopAtShutdown ==
    [][ReputationDB = "closed" =>
          UNCHANGED <<ReputationScores, ConnectionRate, BurstWindowIps,
                      ShortWindowIps, MediumWindowIps, LongWindowIps,
                      AdaptiveMultipliers, IPWhitelist, GeoCache>>]_vars

\* ---------------------------------------------------------------------
\* Locks: the claims
\* ---------------------------------------------------------------------

C24_UpdatedNotBeforeDecay ==
    \A ip \in DOMAIN ReputationScores :
        ReputationScores[ip].LastUpdated >= ReputationScores[ip].LastDecay

\* The record after k decay ticks, the first at time t and one
\* ReputationDecayInterval apart.
RECURSIVE C25_After(_, _, _)
C25_After(data, k, t) ==
    IF k = 0 THEN data
    ELSE C25_After(DecayRecord(data, t), k - 1, t + ReputationDecayInterval)

\* A record at score 20, last decayed one interval before now.
C25_At20 ==
    ReputationData("a", 20, now, now - ReputationDecayInterval, 0, 0, 0)

\* C25: a decay tick moves the score of each record last decayed at least one
\* ReputationDecayInterval ago by exactly one toward 50, never across it,
\* leaves a score of 50 alone and sets LastDecay to now; it changes neither
\* the score of a record decayed more recently nor any counter nor
\* LastUpdated; a record at 20 is at 50 after 30 ticks one interval apart, not
\* before, and stays there.
C25_DecayTick ==
    [][ReputationDecayRoutine =>
        /\ DOMAIN ReputationScores' = DOMAIN ReputationScores
        /\ \A ip \in DOMAIN ReputationScores :
            LET old == ReputationScores[ip]
                new == ReputationScores'[ip]
            IN /\ IF now - old.LastDecay >= ReputationDecayInterval
                  THEN /\ new.LastDecay = now
                       /\ old.Score < DefaultReputationScore => new.Score = old.Score + 1
                       /\ old.Score > DefaultReputationScore => new.Score = old.Score - 1
                       /\ old.Score = DefaultReputationScore => new.Score = old.Score
                  ELSE /\ new.Score = old.Score
                       /\ new.LastDecay = old.LastDecay
               /\ new.LastUpdated = old.LastUpdated
               /\ new.TotalRequests = old.TotalRequests
               /\ new.FailedChallenges = old.FailedChallenges
               /\ new.RateLimitHits = old.RateLimitHits
               /\ new.IP = old.IP
        /\ ReputationDecayInterval > 0 =>
            /\ C25_After(C25_At20, 29, now).Score = 49
            /\ C25_After(C25_At20, 30, now).Score = 50
            /\ C25_After(C25_At20, 31, now).Score = 50]_vars

\* C25: a decay tick has moved a record from 49 to 50 at a time after its
\* last update.
C25_Witness ==
    \E ip \in DOMAIN ReputationScores :
        /\ ReputationScores[ip].Score = DefaultReputationScore
        /\ ReputationScores[ip].LastDecay = now
        /\ ReputationScores[ip].LastDecay > ReputationScores[ip].LastUpdated

\* ---------------------------------------------------------------------
\* Multi-window counter: the cleanup, the claims
\* ---------------------------------------------------------------------

\* C26: after CleanupOldWindows each window kind holds only its current and
\* its previous bucket (at most two), every bucket that starts two or more
\* window lengths before the current one is gone, and the current bucket is
\* kept, so that no count changes.
C26_CleanupKeepsTwo ==
    [][CleanupOldWindows =>
        \A window \in {"burst", "short", "medium", "long"} :
            LET size == C21_Stored(window).size
                current == C21_Key(now, size)
                left == DOMAIN (C21_Stored(window).map)'
            IN /\ left \subseteq {current, current - size}
               /\ Cardinality(left) <= 2
               /\ \A ts \in DOMAIN C21_Stored(window).map :
                      ts <= current - size * 2 => ts \notin left
               /\ \A ip \in IPs :
                      RequestCountAt(ip, window, now)' = RequestCountAt(ip, window, now)]_vars

\* ---------------------------------------------------------------------
\* Adaptive controller: the multiplier tick, the claims
\* ---------------------------------------------------------------------
C27_One == Rat(1, 1)
C27_Max(x, y) == IF RLess(x, y) THEN y ELSE x
C27_Min(x, y) == IF RLess(y, x) THEN y ELSE x

\* The multiplier of a domain in a map of multipliers, 1.0 when none is stored.
C27_Stored(multipliers, d) ==
    IF d \in DOMAIN multipliers THEN multipliers[d] ELSE C27_One

\* The multiplier after one tick, as stated.
C27_Expected(m, raw, bypass) ==
    IF bypass
    THEN C27_Max(RMul(m, AdaptiveAttackMultiplier), AdaptiveAttackMultiplier)
    ELSE IF raw
    THEN C27_Max(RMul(m, RawAttackFactor),
                 RMul(AdaptiveAttackMultiplier, RawAttackFloorFactor))
    ELSE C27_Min(RAdd(m, RMul(RSub(C27_One, m), AdaptiveDecayRate)), C27_One)

\* C27: one tick of the multiplier loop takes the multiplier m of each domain
\* (1.0 when none is stored) to max(m * attack, attack) under a bypass attack,
\* to max(m * 0.7, attack * 1.5) under a raw attack alone and to
\* min(m + (1.0 - m) * decay, 1.0) under no attack, and the update of one
\* domain changes the multiplier of no other.
C27_MultiplierTick ==
    [][(AdaptiveRoutineTick /\ AdaptiveRateLimitEnabled) =>
        /\ \A d \in DOMAIN DomainsData :
              C27_Stored(AdaptiveMultipliers', d) =
                  C27_Expected(C27_Stored(AdaptiveMultipliers, d),
                               DomainsData[d].RawAttack, DomainsData[d].BypassAttack)
        /\ \A d \in DOMAIN DomainsData : \A e \in DomainNames \ {d} :
              LET one == UpdateAdaptiveMultiplierOf(AdaptiveMultipliers, d,
                             DomainsData[d].RawAttack \/ DomainsData[d].BypassAttack,
                             DomainsData[d].BypassAttack)
              IN /\ (e \in DOMAIN one) = (e \in DOMAIN AdaptiveMultipliers)
                 /\ e \in DOMAIN one => one[e] = AdaptiveMultipliers[e]]_vars

\* The multiplier stored for a domain, the base multiplier when none is.
C28_Multiplier(d) ==
    IF d \in DOMAIN AdaptiveMultipliers
    THEN AdaptiveMultipliers[d] ELSE AdaptiveBaseMultiplier

\* C28: a tick of the multiplier loop never raises the multiplier of a domain
\* under attack (raw or bypass) and never lowers the multiplier of a domain
\* under no attack, from whatever value the multiplier has reached.
C28_TickMonotone ==
    [][(AdaptiveRoutineTick /\ AdaptiveRateLimitEnabled) =>
        \A d \in DOMAIN DomainsData :
            IF DomainsData[d].RawAttack \/ DomainsData[d].BypassAttack
            THEN ~RLess(C28_Multiplier(d), C28_Multiplier(d)')
            ELSE ~RLess(C28_Multiplier(d)', C28_Multiplier(d))]_vars

\* ---------------------------------------------------------------------
\* Adaptive controller: the trust-list learning, the claims
\* ---------------------------------------------------------------------
C29_Half == FDivInt(1, 2)

\* C29: after every learning update the trust list holds no entry with
\* RequestCount >= 10 and SuccessRate < 0.5; an entry that is kept has
\* RequestCount = the number of outcomes since it was created and
\* SuccessRate = successes / RequestCount (as a float64); and a learning
\* update deletes no entry whose RequestCount is below 10 or whose successes
\* are at least half of its outcomes.
C29_LearningUpdate ==
    [][/\ \A ip \in DOMAIN IPWhitelist' :
            LET entry == IPWhitelist'[ip]
            IN /\ ~(entry.RequestCount >= MinLearningRequests
                    /\ FLess(entry.SuccessRate, C29_Half))
               /\ entry.RequestCount = learned'[ip].n
               /\ entry.SuccessRate = FDivInt(learned'[ip].s, learned'[ip].n)
       /\ \A ip \in DOMAIN IPWhitelist, success \in BOOLEAN :
            (UpdateWhitelistLearning(ip, success) /\ ip \notin DOMAIN IPWhitelist')
            => LET n == learned[ip].n + 1
                   s == learned[ip].s + IF success THEN 1 ELSE 0
               IN n >= MinLearningRequests /\ 2 * s < n]_vars

\* ---------------------------------------------------------------------
\* Connection limiter: the cleanup, the claims
\* ---------------------------------------------------------------------

\* Every connection of the ip is at least ConnectionRateWindow old.
C30_Quiet(ip) ==
    \A i \in 1..Len(MapGetSeq(ConnectionRate, ip)) :
        ~(now - ConnectionRate[ip][i] < ConnectionRateWindow)

\* C30: after CleanupOldEntries every timestamp left in a rate window is
\* younger than ConnectionRateWindow and no ip keeps an empty rate window;
\* the cleanup changes no active count and no half-open count; so an ip
\* whose active count is back at zero and whose last connection is older
\* than ConnectionRateWindow has neither an active-count entry nor a
\* rate-window entry after the cleanup.
C30_CleanupEntries ==
    [][CleanupOldEntries =>
        /\ \A ip \in DOMAIN ConnectionRate' :
              /\ Len(ConnectionRate'[ip]) > 0
              /\ \A i \in 1..Len(ConnectionRate'[ip]) :
                    now - ConnectionRate'[ip][i] < ConnectionRateWindow
        /\ ActiveConnections' = ActiveConnections
        /\ HalfOpenConnections' = HalfOpenConnections
        /\ \A ip \in IPs :
              (MapGet(ActiveConnections, ip) = 0 /\ C30_Quiet(ip))
              => /\ ip \notin DOMAIN ActiveConnections'
                 /\ ip \notin DOMAIN ConnectionRate']_vars

\* C30: a cleanup has removed the rate window of an ip whose connection was
\* closed, while the window of another ip stays.
C30_Witness ==
    /\ ret.op = "CleanupEntries"
    /\ \E ip \in ret.removed :
          ip \notin DOMAIN ActiveConnections /\ ip \notin DOMAIN ConnectionRate
    /\ ConnectionRate # EmptyMap

\* ---------------------------------------------------------------------
\* Multi-window counter: the bucket keys, the claims
\* ---------------------------------------------------------------------

\* C31: in every reachable state, after any records and cleanups at any
\* time and for any positive window sizes, the key of every bucket of a
\* window kind is an exact multiple of the size of that window.
C31_KeysAreMultiples ==
    \A window \in {"burst", "short", "medium", "long"} :
        \A ts \in DOMAIN C21_Stored(window).map :
            /\ C21_Stored(window).size > 0
            /\ ts % C21_Stored(window).size = 0

\* C31: a request made at time 3 has been recorded under the key 2 of the
\* short window of size 2 and under the key 3 of the burst window of size 1.
C31_Witness ==
    /\ ret.op = "Record" /\ ret.done /\ ret.at = 3
    /\ ShortWindow = 2 /\ BurstWindow = 1
    /\ CountIn(ShortWindowIps, 2, ret.ip) >= 1
    /\ CountIn(BurstWindowIps, 3, ret.ip) >= 1
    /\ 3 \notin DOMAIN ShortWindowIps

\* ---------------------------------------------------------------------
\* Per-IP metrics: the claims
\* ---------------------------------------------------------------------

C33_Fresh(ip) ==
    /\ ip \in DOMAIN GeoCache
    /\ now - GeoCache[ip].CachedAt < GeoCacheTTL

\* What Lookup(ip) does up to its cache test, for the calls chosen by enabled.
C33_Call(enabled) ==
    \A t \in Threads, ip \in IPs :
        (GetGeoData_Call(t, "Lookup", ip) /\ GeoFilteringEnabled \in enabled) =>
            /\ GeoCache' = GeoCache
            /\ IF C33_Fresh(ip)
               THEN /\ ret'.op = "Lookup" /\ ret'.ip = ip
                    /\ ret'.rec = GeoCache[ip] /\ ret'.err = "nil"
                    /\ geo' = geo
               ELSE /\ geo'[t].pc = "fetch" /\ geo'[t].ip = ip
                    /\ \A u \in Threads \ {t} : geo'[u] = geo[u]

\* What a fetch that succeeds leaves in the cache.
C33_Fetched ==
    \A t \in Threads, o \in {r \in GeoCacheOutcomes : ~Failed(r)} :
        (GetGeoData_Fetch(t, o) /\ geo[t].op = "Lookup") =>
            /\ DOMAIN GeoCache' = DOMAIN GeoCache \cup {geo[t].ip}
            /\ GeoCache'[geo[t].ip].ASN = o.ASN
            /\ GeoCache'[geo[t].ip].CountryCode = o.CountryCode
            /\ GeoCache'[geo[t].ip].CachedAt = now
            /\ \A i \in DOMAIN GeoCache \ {geo[t].ip} : GeoCache'[i] = GeoCache[i]
            /\ ret'.rec = GeoCache'[geo[t].ip]
            /\ geo'[t].pc = "idle"

\* What the cleanup removes.
C33_Cleaned ==
    CleanupGeoCache =>
        /\ DOMAIN GeoCache' =
              {i \in DOMAIN GeoCache : now - GeoCache[i].CachedAt <= 2 * GeoCacheTTL}
        /\ \A i \in DOMAIN GeoCache' : GeoCache'[i] = GeoCache[i]

\* C33, with geo filtering enabled: Lookup(ip) with a cached record younger
\* than GeoCacheTTL returns that record, issues no fetch and leaves the cache
\* alone; with no cached record or one at least GeoCacheTTL old it issues one
\* fetch and, when the fetch succeeds, the cache entry of ip becomes the fetched
\* record stamped with the current time; the cleanup removes exactly the entries
\* older than 2 x GeoCacheTTL.
C33_LookupWhenEnabled ==
    [][C33_Call({TRUE}) /\ C33_Fetched /\ C33_Cleaned]_vars

\* C33 as stated, for every Lookup: the same with geo filtering enabled or not.
C33_LookupAlways ==
    [][C33_Call(BOOLEAN) /\ C33_Fetched /\ C33_Cleaned]_vars

\* C33 witness: a Lookup found a record exactly GeoCacheTTL old, fetched and
\* stored the answer with the current time, while the cache holds another
\* entry that is exactly 2 x GeoCacheTTL old and survived a cleanup.
C33_Witness ==
    /\ ret.op = "Lookup" /\ ret.err = "nil" /\ ret.rec # Nil
    /\ now = 2 * GeoCacheTTL
    /\ ret.ip \in DOMAIN GeoCache
    /\ GeoCache[ret.ip].CachedAt = now
    /\ \E i \in DOMAIN GeoCache : GeoCache[i].CachedAt = 0

\* ---------------------------------------------------------------------
\* Reputation store: a configuration with Reputation.Enabled = false
\* ---------------------------------------------------------------------
\* The state Load leaves when the configuration has Reputation.Enabled = false:
\* of the configurations of the model only that one keeps PersistToDB at its
\* default and opens no database.
C34_LoadedDisabled ==
    /\ phase = "run"
    /\ ReputationPersistToDB
    /\ ReputationDB = "nil"

\* C34: when the configuration has Reputation.Enabled = false, reputation is
\* disabled after Load, and from then on every IsBlocked returns false, every
\* Score returns 50 and every Update returns at once without changing a record
\* or taking the lock.
C34_DisabledByConfig ==
    [][/\ \A cfg \in ReputationConfigs :
            (~cfg.Enabled /\ Load([DefaultConfig EXCEPT !.rep = cfg]))
            => ~ReputationEnabled'
       /\ C34_LoadedDisabled =>
            /\ ~ReputationEnabled
            /\ \A t \in Threads, ip \in IPs :
                  /\ IsIPBlocked(t, ip) => ret'.val = FALSE
                  /\ GetReputationScore(t, ip) => ret'.val = DefaultReputationScore
                  /\ \A in \in UpdateInputs :
                        UpdateReputation_Call(t, ip, in[1], in[2]) =>
                            /\ ret'.op = "Update" /\ ~ret'.done
                            /\ ReputationMutex' = ReputationMutex
                            /\ ReputationScores' = ReputationScores]_vars

\* ---------------------------------------------------------------------
\* Multi-window counter: window sizes that divide each other
\* ---------------------------------------------------------------------
C35_Nested ==
    /\ BurstWindow > 0
    /\ ShortWindow % BurstWindow = 0
    /\ MediumWindow % ShortWindow = 0
    /\ LongWindow % MediumWindow = 0

\* C35: when each window size divides the next larger one, whenever Count can
\* be answered (no RecordRequest holds the write lock) the counts of every IP
\* satisfy Count(ip, burst) <= Count(ip, short) <= Count(ip, medium) <=
\* Count(ip, long).
C35_CountsOrdered ==
    (phase = "run" /\ C35_Nested /\ WindowsReadable) =>
        \A ip \in IPs :
            /\ RequestCountAt(ip, "burst", now) <= RequestCountAt(ip, "short", now)
            /\ RequestCountAt(ip, "short", now) <= RequestCountAt(ip, "medium", now)
            /\ RequestCountAt(ip, "medium", now) <= RequestCountAt(ip, "long", now)

\* C35 witness: with the sizes 1, 2, 4, 8, three seconds after the start and
\* after a cleanup removed the first burst bucket, the burst window of an IP is
\* empty while its short window counts one request and its medium and long
\* windows two.
C35_Witness ==
    /\ phase = "run" /\ WindowsReadable
    /\ BurstWindow = 1 /\ ShortWindow = 2 /\ MediumWindow = 4 /\ LongWindow = 8
    /\ now = 3
    /\ RequestCountAt("a", "burst", now) = 0
    /\ RequestCountAt("a", "short", now) = 1
    /\ RequestCountAt("a", "medium", now) = 2
    /\ RequestCountAt("a", "long", now) = 2
    /\ 0 \notin DOMAIN BurstWindowIps

====
